---- MODULE Spec2Model ----
(***************************************************************************)
(* DaySpark almanac engine: the moon, sun/planet and celestial-event       *)
(* providers, modelled from the TypeScript sources.                        *)
(*                                                                         *)
(* Units.  Angles are integers in half-degrees (720 = 360 deg) unless a    *)
(* definition says otherwise; every threshold of the sources is a multiple *)
(* of 0.5 deg.  Instants of the moon provider are whole hours since the    *)
(* UTC epoch; instants of the celestial-event provider are milliseconds    *)
(* since the start of the queried UTC day.                                 *)
(***************************************************************************)
EXTENDS Integers, Sequences, FiniteSets, TLC

(***************************************************************************)
(* Bounds of the model                                                     *)
(***************************************************************************)
\* longitudes are drawn from -LonTurns .. LonTurns+1 full circles
LonTurns == 1

\* the moon provider is queried for the local dates 0 .. MaxTargetDay
MaxTargetDay == 31

HalfCircle == 360
FullCircle == 720

(***************************************************************************)
(* JavaScript arithmetic                                                   *)
(***************************************************************************)
\* a % b of JavaScript for b > 0: the result has the sign of the dividend
JsMod(a, b) == IF a >= 0 THEN a % b ELSE 0 - ((0 - a) % b)

\* Math.round(n / d) for d > 0: nearest integer, halves towards +infinity
JsRound(n, d) == (2 * n + d) \div (2 * d)

\* Math.sign
Sign(x) == IF x > 0 THEN 1 ELSE IF x < 0 THEN 0 - 1 ELSE 0

\* Math.abs
Abs(x) == IF x < 0 THEN 0 - x ELSE x

\* Math.cos of an angle given in half-degrees within 0 .. 360 deg,
\* scaled by CosScale
CosScale == 1000000

CosTable ==
    <<
       1000000, 999962, 999848, 999657, 999391, 999048, 998630, 998135, 997564, 996917,
       996195, 995396, 994522, 993572, 992546, 991445, 990268, 989016, 987688, 986286,
       984808, 983255, 981627, 979925, 978148, 976296, 974370, 972370, 970296, 968148,
       965926, 963630, 961262, 958820, 956305, 953717, 951057, 948324, 945519, 942641,
       939693, 936672, 933580, 930418, 927184, 923880, 920505, 917060, 913545, 909961,
       906308, 902585, 898794, 894934, 891007, 887011, 882948, 878817, 874620, 870356,
       866025, 861629, 857167, 852640, 848048, 843391, 838671, 833886, 829038, 824126,
       819152, 814116, 809017, 803857, 798636, 793353, 788011, 782608, 777146, 771625,
       766044, 760406, 754710, 748956, 743145, 737277, 731354, 725374, 719340, 713250,
       707107, 700909, 694658, 688355, 681998, 675590, 669131, 662620, 656059, 649448,
       642788, 636078, 629320, 622515, 615661, 608761, 601815, 594823, 587785, 580703,
       573576, 566406, 559193, 551937, 544639, 537300, 529919, 522499, 515038, 507538,
       500000, 492424, 484810, 477159, 469472, 461749, 453990, 446198, 438371, 430511,
       422618, 414693, 406737, 398749, 390731, 382683, 374607, 366501, 358368, 350207,
       342020, 333807, 325568, 317305, 309017, 300706, 292372, 284015, 275637, 267238,
       258819, 250380, 241922, 233445, 224951, 216440, 207912, 199368, 190809, 182236,
       173648, 165048, 156434, 147809, 139173, 130526, 121869, 113203, 104528, 95846,
       87156, 78459, 69756, 61049, 52336, 43619, 34899, 26177, 17452, 8727,
       0, -8727, -17452, -26177, -34899, -43619, -52336, -61049, -69756, -78459,
       -87156, -95846, -104528, -113203, -121869, -130526, -139173, -147809, -156434, -165048,
       -173648, -182236, -190809, -199368, -207912, -216440, -224951, -233445, -241922, -250380,
       -258819, -267238, -275637, -284015, -292372, -300706, -309017, -317305, -325568, -333807,
       -342020, -350207, -358368, -366501, -374607, -382683, -390731, -398749, -406737, -414693,
       -422618, -430511, -438371, -446198, -453990, -461749, -469472, -477159, -484810, -492424,
       -500000, -507538, -515038, -522499, -529919, -537300, -544639, -551937, -559193, -566406,
       -573576, -580703, -587785, -594823, -601815, -608761, -615661, -622515, -629320, -636078,
       -642788, -649448, -656059, -662620, -669131, -675590, -681998, -688355, -694658, -700909,
       -707107, -713250, -719340, -725374, -731354, -737277, -743145, -748956, -754710, -760406,
       -766044, -771625, -777146, -782608, -788011, -793353, -798636, -803857, -809017, -814116,
       -819152, -824126, -829038, -833886, -838671, -843391, -848048, -852640, -857167, -861629,
       -866025, -870356, -874620, -878817, -882948, -887011, -891007, -894934, -898794, -902585,
       -906308, -909961, -913545, -917060, -920505, -923880, -927184, -930418, -933580, -936672,
       -939693, -942641, -945519, -948324, -951057, -953717, -956305, -958820, -961262, -963630,
       -965926, -968148, -970296, -972370, -974370, -976296, -978148, -979925, -981627, -983255,
       -984808, -986286, -987688, -989016, -990268, -991445, -992546, -993572, -994522, -995396,
       -996195, -996917, -997564, -998135, -998630, -999048, -999391, -999657, -999848, -999962,
       -1000000 >>

\* Math.cos(elongation * PI / 180), elongation in half-degrees, any value
Cos(hd) ==
    LET a == hd % FullCircle
        b == IF a > HalfCircle THEN FullCircle - a ELSE a
    IN  IF b >= 0 /\ b <= HalfCircle THEN CosTable[b + 1] ELSE CosScale

(***************************************************************************)
(* MoonProvider.calculatePhase                                             *)
(***************************************************************************)
phases ==
    << "New Moon", "Waxing Crescent", "First Quarter", "Waxing Gibbous",
       "Full Moon", "Waning Gibbous", "Third Quarter", "Waning Crescent" >>

\* the phase record of an elongation already reduced by the caller
PhaseOf(elongation) ==
    LET phasePct == (CosScale - Cos(elongation)) \div 2
        segment  == JsMod(JsRound(elongation * 8, FullCircle), 8)
    IN  [ elongation   |-> elongation,
          phasePct     |-> phasePct,
          segment      |-> segment,
          name         |-> IF segment \in 0..7 THEN phases[segment + 1]
                           ELSE "undefined",
          illumination |-> JsRound(phasePct * 100, CosScale) ]

\* variant: the negative remainder is not lifted into [0,360)
calculatePhase_noLift(moonLon, sunLon) ==
    PhaseOf(JsMod(moonLon - sunLon, FullCircle))

\* variant: the bucket is truncated instead of rounded
calculatePhase_floor(moonLon, sunLon) ==
    LET e0 == JsMod(moonLon - sunLon, FullCircle)
        e  == IF e0 < 0 THEN e0 + FullCircle ELSE e0
        p  == PhaseOf(e)
        s  == JsMod((e * 8) \div FullCircle, 8)
    IN  [ p EXCEPT !.segment = s, !.name = phases[s + 1] ]

calculatePhase(moonLon, sunLon) ==
    LET e0 == JsMod(moonLon - sunLon, FullCircle)
        elongation == IF e0 < 0 THEN e0 + FullCircle ELSE e0
    IN  PhaseOf(elongation)

(***************************************************************************)
(* MoonProvider.getAstronomicalConstellation                               *)
(***************************************************************************)
\* the zodiac if-chain on a longitude l already reduced by the caller
ZodiacChain(l) ==
    IF l >= 703 \/ l < 58 THEN "Pisces"
    ELSE IF l < 107 THEN "Aries"
    ELSE IF l < 180 THEN "Taurus"
    ELSE IF l < 236 THEN "Gemini"
    ELSE IF l < 276 THEN "Cancer"
    ELSE IF l < 348 THEN "Leo"
    ELSE IF l < 436 THEN "Virgo"
    ELSE IF l < 482 THEN "Libra"
    ELSE IF l < 496 THEN "Scorpius"
    ELSE IF l < 532 THEN "Ophiuchus"
    ELSE IF l < 599 THEN "Sagittarius"
    ELSE IF l < 655 THEN "Capricornus"
    ELSE IF l < 703 THEN "Aquarius"
    ELSE "Unknown"

\* variant of the chain: the Aries test includes its upper threshold
ZodiacChain_inclusive(l) ==
    IF l >= 703 \/ l < 58 THEN "Pisces"
    ELSE IF l <= 107 THEN "Aries"
    ELSE ZodiacChain(l)

\* the four "intruder" boxes, tested before the zodiac
Intruder(l, lat) ==
    IF l >= 10 /\ l <= 50 /\ lat < 0 - 7 THEN "Cetus"
    ELSE IF l >= 168 /\ l <= 182 /\ lat < 0 - 1 THEN "Orion"
    ELSE IF l >= 160 /\ l <= 190 /\ lat > 9 THEN "Auriga"
    ELSE IF l >= 286 /\ l <= 310 /\ lat < 0 - 5 THEN "Sextans"
    ELSE "none"

\* variant: a negative remainder is used as it is
getAstronomicalConstellation_noLift(lon, lat) ==
    LET l == JsMod(lon, FullCircle)
    IN  IF Intruder(l, lat) # "none" THEN Intruder(l, lat)
        ELSE ZodiacChain(l)

\* variant: the boundary of Aries and Taurus goes to the lower side
getAstronomicalConstellation_inclusive(lon, lat) ==
    LET l0 == JsMod(lon, FullCircle)
        l  == IF l0 < 0 THEN l0 + FullCircle ELSE l0
    IN  IF Intruder(l, lat) # "none" THEN Intruder(l, lat)
        ELSE ZodiacChain_inclusive(l)

getAstronomicalConstellation(lon, lat) ==
    LET l0 == JsMod(lon, FullCircle)
        l  == IF l0 < 0 THEN l0 + FullCircle ELSE l0
    IN  IF Intruder(l, lat) # "none" THEN Intruder(l, lat)
        ELSE ZodiacChain(l)

(***************************************************************************)
(* Date arithmetic of the moon provider.  Instants are whole hours since   *)
(* the UTC epoch; tz is the local UTC offset in hours, east positive.      *)
(***************************************************************************)
HoursPerDay == 24

\* Date.setUTCHours(0,0,0,0)
setUTCHours0(t) == (t \div HoursPerDay) * HoursPerDay

\* Date.setHours(h,0,0,0): hour h of the local calendar day of t
setHours(t, h, tz) == ((t + tz) \div HoursPerDay) * HoursPerDay - tz + h

\* the local calendar day an instant falls on
LocalDay(t, tz) == (t + tz) \div HoursPerDay

\* the instant a daily note named for local day D is parsed to
\* (moment(name, format).toDate(): local midnight)
NoteDate(D, tz) == D * HoursPerDay - tz

(***************************************************************************)
(* Ephemeris of the moon provider.  The moon-sun elongation grows at the   *)
(* mean synodic rate the new-moon search divides by (12.1907 deg a day,    *)
(* one turn in 29.53 d = 709 h), so the search works in synodic units:     *)
(* 1 unit = the elongation gained in one hour, SynodicHours units = 360    *)
(* deg.  epoch is the instant of one new moon.                             *)
(***************************************************************************)
SynodicHours == 709

\* getSunPosition(t).eclipticLongitude, in synodic units, unreduced
getSunPosition(t) == t \div 12

\* getMoonPosition(t).eclipticLongitude, in synodic units, unreduced
getMoonPosition(t, epoch) == getSunPosition(t) + (t - epoch)

\* a longitude in synodic units as half-degrees
ToHalfDeg(u) == (u * FullCircle) \div SynodicHours

\* while (d < -180) d += 360, for a circle of `full` units
RECURSIVE WrapUp(_, _)
WrapUp(d, full) == IF 2 * d < 0 - full THEN WrapUp(d + full, full) ELSE d

\* while (d > 180) d -= 360
RECURSIVE WrapDown(_, _)
WrapDown(d, full) == IF 2 * d > full THEN WrapDown(d - full, full) ELSE d

\* both loops, in the order of the sources
Normalize180(d, full) == WrapDown(WrapUp(d, full), full)

\* the loop of findPreviousNewMoon from iteration i on
RECURSIVE FindNewMoonFrom(_, _, _)
FindNewMoonFrom(t, i, epoch) ==
    IF i >= 5 THEN t
    ELSE LET d0   == getMoonPosition(t, epoch) - getSunPosition(t)
             d1   == Normalize180(d0, SynodicHours)
             diff == IF i = 0 /\ d1 < 0 THEN d1 + SynodicHours ELSE d1
             \* daysCorrection * 86400000 ms: diff units at one unit an hour
             t2   == t - diff
         IN  IF diff = 0 THEN t2 ELSE FindNewMoonFrom(t2, i + 1, epoch)

findPreviousNewMoon(startDate, epoch) == FindNewMoonFrom(startDate, 0, epoch)

getCalendarDayDifference(d1, d2, tz) ==
    JsRound(setHours(d2, 0, tz) - setHours(d1, 0, tz), HoursPerDay)

(***************************************************************************)
(* formatTime: a Date rendered as local wall-clock text                    *)
(***************************************************************************)
\* hours 0..23 and minutes 0..59 as the text pieces of the label
formatTime(hours, minutes, use24HourFormat) ==
    IF use24HourFormat
    THEN << hours, minutes, "" >>
    ELSE << IF hours % 12 = 0 THEN 12 ELSE hours % 12, minutes,
            IF hours >= 12 THEN "PM" ELSE "AM" >>

(***************************************************************************)
(* MoonProvider.getMoonTimes: the altitude is sampled every 10 minutes     *)
(* for 180 steps from local midnight.  An altitude track gives the sign of *)
(* (altitude - h0) at each step: it starts at a, turns to b at step c1 and *)
(* to c at step c2.                                                        *)
(***************************************************************************)
MoonScanSteps == 180

AltAt(track, i) ==
    IF i < track.c1 THEN track.a ELSE IF i < track.c2 THEN track.b ELSE track.c

\* the least member of a non-empty set of steps
MinStep(S) == CHOOSE i \in S : \A j \in S : i <= j

\* the steps at which the loop sees a rise (prevAlt < 0 and alt >= 0) and
\* a set (prevAlt > 0 and alt <= 0)
RiseSteps(track) ==
    { i \in 1..MoonScanSteps : AltAt(track, i - 1) < 0 /\ AltAt(track, i) >= 0 }

SetSteps(track) ==
    { i \in 1..MoonScanSteps : AltAt(track, i - 1) > 0 /\ AltAt(track, i) <= 0 }

\* the scan loop: only the first rise and the first set are kept
\* (!riseTime, !setTime); -1 stands for null
MoonScan(track) ==
    [ rise |-> IF RiseSteps(track) = {} THEN 0 - 1 ELSE MinStep(RiseSteps(track)),
      set  |-> IF SetSteps(track) = {} THEN 0 - 1 ELSE MinStep(SetSteps(track)) ]

getMoonTimes(track, located) ==
    IF ~located THEN [ rise |-> 0 - 1, set |-> 0 - 1 ]
    ELSE MoonScan(track)

\* the wall-clock text of scan step i (10 minutes a step from local midnight)
StepTime(i, use24HourFormat) ==
    formatTime(((i * 10) \div 60) % 24, (i * 10) % 60, use24HourFormat)

(***************************************************************************)
(* MoonProvider.getDataForDate                                             *)
(***************************************************************************)
Item(kind, text, num, time) ==
    [ kind |-> kind, text |-> text, num |-> num, time |-> time ]

NoTime == << 0, 0, "" >>

\* variant: the age is counted from the local day of the note itself
MoonAgeOf_local(targetDate, tz, epoch) ==
    getCalendarDayDifference(
        findPreviousNewMoon(setHours(targetDate, 12, tz), epoch),
        targetDate, tz)

\* the age line: previous new moon from local noon, day difference to the
\* UTC midnight of the target instant
MoonAgeOf(targetDate, tz, epoch) ==
    getCalendarDayDifference(
        findPreviousNewMoon(setHours(targetDate, 12, tz), epoch),
        setUTCHours0(targetDate), tz)

MoonGetDataForDate(in) ==
    IF ~in.enableMoon THEN << >>
    ELSE
    LET targetDate      == NoteDate(in.day, in.tz)
        utcMidnightDate == setUTCHours0(targetDate)
        zodiac == getAstronomicalConstellation(
                      ToHalfDeg(getMoonPosition(utcMidnightDate, in.epoch)),
                      in.lat)
        noonDate  == setHours(targetDate, 12, in.tz)
        phaseData == calculatePhase(
                         ToHalfDeg(getMoonPosition(noonDate, in.epoch)),
                         ToHalfDeg(getSunPosition(noonDate)))
        age   == MoonAgeOf(targetDate, in.tz, in.epoch)
        times == getMoonTimes(in.alt, in.located)
    IN  << Item("Phase", phaseData.name, phaseData.illumination, NoTime),
           Item("Astronomical Position", zodiac, 0, NoTime),
           Item("Moon Age", "days", age, NoTime) >>
        \o (IF times.rise >= 0
            THEN << Item("Rise", "", 0, StepTime(times.rise, in.use24)) >>
            ELSE << >>)
        \o (IF times.set >= 0
            THEN << Item("Set", "", 0, StepTime(times.set, in.use24)) >>
            ELSE << >>)

(***************************************************************************)
(* Rise and set.  Instants are whole minutes since the UTC epoch, offsets  *)
(* are minutes east of UTC.  The cosine of the hour angle is an input of   *)
(* the model, in thousandths; Math.acos is tabulated on the inputs used.   *)
(***************************************************************************)
MinutesPerDay == 1440

\* cos H in thousandths: beyond +1, the range of acos, beyond -1
CosHValues == { 0 - 1500, 0 - 1000, 0 - 500, 0, 500, 995, 1000, 1500 }

\* Math.acos to the nearest degree, for a cosine within [-1,1]
AcosDeg(cosH) ==
    CASE cosH = 1000 -> 0
      [] cosH = 995 -> 6
      [] cosH = 500 -> 60
      [] cosH = 0 -> 90
      [] cosH = 0 - 500 -> 120
      [] cosH = 0 - 1000 -> 180

\* a Date as the wall-clock text of an observer at offset tz
formatDate(t, tz, use24HourFormat) ==
    LET m == (t + tz) % MinutesPerDay
    IN  formatTime(m \div 60, m % 60, use24HourFormat)

\* the value both providers return: null, or the computed times
NullResult ==
    [ isNull |-> TRUE, rise |-> NoTime, set |-> NoTime,
      riseDate |-> 0, setDate |-> 0 ]

\* SunProvider.calculateTime: in.base is RA - 0.06571 t - 6.622 - lngHour
\* in minutes; the result is the local time of day in minutes
SunCalculateTime(in) ==
    IF in.cosH > 1000 THEN NullResult        \* Sun never rises
    ELSE IF in.cosH < 0 - 1000 THEN NullResult   \* Sun never sets
    ELSE
    LET H  == IF in.isSunrise THEN 360 - AcosDeg(in.cosH) ELSE AcosDeg(in.cosH)
        T  == H * 4 + in.base
        UT == IF T > MinutesPerDay THEN T - MinutesPerDay
              ELSE IF T < 0 THEN T + MinutesPerDay ELSE T
        l0 == UT + in.tz
        l1 == IF l0 >= MinutesPerDay THEN l0 - MinutesPerDay ELSE l0
        localT == IF l1 < 0 THEN l1 + MinutesPerDay ELSE l1
    IN  [ isNull |-> FALSE, rise |-> NoTime, set |-> NoTime,
          riseDate |-> localT, setDate |-> 0 ]

\* while (x < 0) x += 24
RECURSIVE WrapDayUp(_)
WrapDayUp(x) == IF x < 0 THEN WrapDayUp(x + MinutesPerDay) ELSE x

\* while (x >= 24) x -= 24
RECURSIVE WrapDayDown(_)
WrapDayDown(x) == IF x >= MinutesPerDay THEN WrapDayDown(x - MinutesPerDay) ELSE x

\* if (x < 0) x += 24; if (x >= 24) x -= 24
WrapOnce(x) ==
    LET y == IF x < 0 THEN x + MinutesPerDay ELSE x
    IN  IF y >= MinutesPerDay THEN y - MinutesPerDay ELSE y

\* The observer's time zone: the UTC offset is rule.std, and rule.dst from
\* the instant rule.from up to the instant rule.to (minutes)
TzOffsetAt(rule, t) ==
    IF rule.from <= t /\ t < rule.to THEN rule.dst ELSE rule.std

FixedZone(off) == [ std |-> off, dst |-> off, from |-> 0, to |-> 0 ]

\* Date.setDate(getDate() + 1): the same wall-clock time on the next local
\* calendar day, which is 24 hours later unless the offset changes in
\* between
AddLocalDay(rule, t) ==
    t + MinutesPerDay - (TzOffsetAt(rule, t + MinutesPerDay) - TzOffsetAt(rule, t))

\* variant: the set is moved by 24 hours whatever the zone does
NextDay_fixed(rule, t) ==
    t + MinutesPerDay

\* the instant setDate holds after setDate.setDate(setDate.getDate() + 1)
NextDay(rule, t) ==
    AddLocalDay(rule, t)

\* PlanetProvider.calcRiseSet: in.date is the instant queried, in.transit
\* is (RA_deg - lng - GMST) / rate in minutes before it is wrapped, in.tz
\* the observer's time zone
calcRiseSet(in) ==
    IF in.cosH > 1000 \/ in.cosH < 0 - 1000 THEN NullResult
    ELSE
    LET utcMidnight   == (in.date \div MinutesPerDay) * MinutesPerDay
        H_deg         == AcosDeg(in.cosH)
        transit_UTC   == WrapDayDown(WrapDayUp(in.transit))
        \* H_deg / 15.04107 hours
        duration_half == (H_deg * 60 * 100000) \div 1504107
        rise_UTC      == WrapOnce(transit_UTC - duration_half)
        set_UTC       == WrapOnce(transit_UTC + duration_half)
        riseDate      == utcMidnight + rise_UTC
        setDate0      == utcMidnight + set_UTC
        setDate       == IF setDate0 < riseDate THEN NextDay(in.tz, setDate0)
                         ELSE setDate0
    IN  [ isNull |-> FALSE,
          rise |-> formatDate(riseDate, TzOffsetAt(in.tz, riseDate), in.use24),
          set |-> formatDate(setDate, TzOffsetAt(in.tz, setDate), in.use24),
          riseDate |-> riseDate, setDate |-> setDate ]

(***************************************************************************)
(* CelestialEventsProvider.  Instants are milliseconds since the start of  *)
(* the queried UTC day (startDay = 0); tz is the observer's UTC offset in  *)
(* milliseconds.  An event is [timeMs, text]; a text is the record of the  *)
(* parts its label is built from: the formatted time, the label and the    *)
(* names of the bodies (the symbols follow from label and names).          *)
(***************************************************************************)
MsPerHour == 3600000
MsPerDay == 86400000

\* the hourly scan of the moon
steps == 24

\* (n / d) * span in whole milliseconds, for a fraction n / d >= 0 (d # 0);
\* the product is split so that no intermediate value leaves 32 bits
FractionOf(n, d, span) ==
    LET nn == IF d > 0 THEN n ELSE 0 - n
        dd == IF d > 0 THEN d ELSE 0 - d
    IN  nn * (span \div dd) + (nn * (span % dd)) \div dd

\* formatTime(new Date(timeMs)) of the celestial provider
formatMs(timeMs, tz, use24HourFormat) ==
    LET m == ((timeMs + tz) \div 60000) % MinutesPerDay
    IN  formatTime(m \div 60, m % 60, use24HourFormat)

\* the time of a text that carries none
Untimed == << >>

Text(time, label, b1, b2) ==
    [ time |-> time, label |-> label, b1 |-> b1, b2 |-> b2 ]

Event(timeMs, text) == [ timeMs |-> timeMs, text |-> text ]

\* a sampled quantity of the moon: constant at pat[1] up to hour `at`, then
\* following pat one sample an hour, then constant at its last value
SignalAt(sig, i) ==
    LET k == i - sig.at + 1
    IN  IF k < 1 THEN sig.pat[1]
        ELSE IF k > Len(sig.pat) THEN sig.pat[Len(sig.pat)]
        ELSE sig.pat[k]

\* getMoonFullPos at hour i of the day: latitude, declination (degrees)
\* and distance
getMoonFullPos(track, i) ==
    [ lat  |-> SignalAt(track.lat, i),
      dec  |-> SignalAt(track.dec, i),
      dist |-> SignalAt(track.dist, i) ]

\* variant: the fraction of the hour is counted from the current sample
getEventTime_fromCurrent(i, prevVal, currVal) ==
    i * MsPerHour + FractionOf(0 - prevVal, currVal - prevVal, MsPerHour)

\* getEventTime of step i: the interpolated zero crossing inside the hour
getEventTime(i, prevVal, currVal) ==
    (i - 1) * MsPerHour + FractionOf(0 - prevVal, currVal - prevVal, MsPerHour)

\* the events one step of the scan pushes, in the order of the sources
LunarStepEvents(i, prevPos, currPos, distTrend, decTrend, st, tz) ==
    LET t == i * MsPerHour
        nodeEv ==
            IF Sign(prevPos.lat) # Sign(currPos.lat)
            THEN LET timeMs == getEventTime(i, prevPos.lat, currPos.lat)
                     timeStr == formatMs(timeMs, tz, st.use24HourFormat)
                 IN  IF prevPos.lat < 0
                     THEN << Event(timeMs, Text(timeStr, "at Ascending Node", "Moon", "")) >>
                     ELSE << Event(timeMs, Text(timeStr, "at Descending Node", "Moon", "")) >>
            ELSE << >>
        eqEv ==
            IF Sign(prevPos.dec) # Sign(currPos.dec)
            THEN LET timeMs == getEventTime(i, prevPos.dec, currPos.dec)
                     timeStr == formatMs(timeMs, tz, st.use24HourFormat)
                 IN  << Event(timeMs, Text(timeStr, "on Eq.", "Moon", "")) >>
            ELSE << >>
        currDistTrend == Sign(currPos.dist - prevPos.dist)
        distEv ==
            IF distTrend # 0 /\ currDistTrend # distTrend
            THEN IF distTrend < 0
                 THEN << Event(t, Text(formatMs(t, tz, st.use24HourFormat), "at Perig.", "Moon", "")) >>
                 ELSE << Event(t, Text(formatMs(t, tz, st.use24HourFormat), "at Apo.", "Moon", "")) >>
            ELSE << >>
        currDecTrend == Sign(currPos.dec - prevPos.dec)
        decEv ==
            IF decTrend # 0 /\ currDecTrend # decTrend /\ Abs(currPos.dec) > 18
            THEN IF decTrend > 0
                 THEN << Event(t, Text(formatMs(t, tz, st.use24HourFormat), "runs High", "Moon", "")) >>
                 ELSE << Event(t, Text(formatMs(t, tz, st.use24HourFormat), "runs Low", "Moon", "")) >>
            ELSE << >>
    IN  IF st.showAdvancedAstronomy
        THEN nodeEv \o eqEv \o distEv \o decEv
        ELSE nodeEv

\* the scan loop from step i on; the trends are only kept up to date while
\* showAdvancedAstronomy is on
RECURSIVE LunarScanFrom(_, _, _, _, _, _, _)
LunarScanFrom(i, track, distTrend, decTrend, events, st, tz) ==
    IF i > steps THEN events
    ELSE LET prevPos == getMoonFullPos(track, i - 1)
             currPos == getMoonFullPos(track, i)
             evs == LunarStepEvents(i, prevPos, currPos, distTrend, decTrend, st, tz)
             dT == IF st.showAdvancedAstronomy
                   THEN Sign(currPos.dist - prevPos.dist) ELSE distTrend
             cT == IF st.showAdvancedAstronomy
                   THEN Sign(currPos.dec - prevPos.dec) ELSE decTrend
         IN  LunarScanFrom(i + 1, track, dT, cT, events \o evs, st, tz)

\* new Map keyed by text, then Array.from(values()): one entry a text, at
\* the place of its first occurrence, holding its last occurrence
UniqueByText(events) ==
    LET firsts == { i \in 1..Len(events) :
                      \A j \in 1..(i - 1) : events[j].text # events[i].text }
        lastOf(i) == CHOOSE k \in 1..Len(events) :
                        /\ events[k].text = events[i].text
                        /\ \A j \in (k + 1)..Len(events) : events[j].text # events[i].text
        RECURSIVE Collect(_)
        Collect(i) ==
            IF i > Len(events) THEN << >>
            ELSE (IF i \in firsts THEN << events[lastOf(i)] >> ELSE << >>)
                 \o Collect(i + 1)
    IN  Collect(1)

\* variant: the scan's events are returned as pushed
getLunarEvents_noDedup(track, st, tz) ==
    LunarScanFrom(1, track, 0, 0, << >>, st, tz)

getLunarEvents(track, st, tz) ==
    UniqueByText(LunarScanFrom(1, track, 0, 0, << >>, st, tz))

\* Array.prototype.sort((a, b) => a.timeMs - b.timeMs): stable
RECURSIVE InsertByTime(_, _)
InsertByTime(sorted, e) ==
    IF sorted = << >> THEN << e >>
    ELSE IF sorted[Len(sorted)].timeMs <= e.timeMs THEN Append(sorted, e)
    ELSE Append(InsertByTime(SubSeq(sorted, 1, Len(sorted) - 1), e),
                sorted[Len(sorted)])

RECURSIVE SortFrom(_, _, _)
SortFrom(events, i, sorted) ==
    IF i > Len(events) THEN sorted
    ELSE SortFrom(events, i + 1, InsertByTime(sorted, events[i]))

\* variant: the events are left in the order they were pushed
SortByTime_none(events) ==
    events

SortByTime(events) ==
    SortFrom(events, 1, << >>)

\* getMeteorShower: the first shower whose peak is within its range of the
\* local calendar date (month m from 0, day d), or "" for null
showers ==
    << [ name |-> "Quadrantids", m |-> 0, d |-> 3, range |-> 2 ],
       [ name |-> "Lyrids", m |-> 3, d |-> 22, range |-> 1 ],
       [ name |-> "Eta Aquariids", m |-> 4, d |-> 6, range |-> 2 ],
       [ name |-> "Perseids", m |-> 7, d |-> 12, range |-> 2 ],
       [ name |-> "Orionids", m |-> 9, d |-> 21, range |-> 2 ],
       [ name |-> "Leonids", m |-> 10, d |-> 17, range |-> 1 ],
       [ name |-> "Geminids", m |-> 11, d |-> 14, range |-> 2 ],
       [ name |-> "Ursids", m |-> 11, d |-> 22, range |-> 1 ] >>

getMeteorShower(m, d) ==
    LET hits == { k \in 1..Len(showers) :
                    m = showers[k].m /\ Abs(d - showers[k].d) <= showers[k].range }
    IN  IF hits = {} THEN ""
        ELSE showers[CHOOSE k \in hits : \A j \in hits : k <= j].name

\* half-degrees of an angle given in degrees
Deg(a) == 2 * a

RECURSIVE Flatten(_)
Flatten(ss) == IF ss = << >> THEN << >> ELSE Head(ss) \o Flatten(Tail(ss))

\* one crossing test of checkCrossing: the difference of the longitudes
\* passes `angle` (signed, half-degrees) between the start and the end of
\* the day; a is the call's arguments
CrossingAt(angle, label, a) ==
    LET d1 == Normalize180((a.start1 - a.start2) - angle, FullCircle)
        d2 == Normalize180((a.end1 - a.end2) - angle, FullCircle)
    IN  IF Sign(d1) # Sign(d2) /\ Abs(d1 - d2) < Deg(20)
        THEN LET timeMs == a.startTimeMs + FractionOf(0 - d1, d2 - d1, MsPerDay)
                 timeStr == formatMs(timeMs, a.tz, a.st.use24HourFormat)
             IN  << Event(timeMs, Text(timeStr, label, a.name1, a.name2)) >>
        ELSE << >>

\* variant: only the crossing of +targetAngle is tested
checkCrossing_plusOnly(targetAngle, label, a) ==
    IF a.isMoonNode /\ (targetAngle = 0 \/ targetAngle = 180) THEN << >>
    ELSE CrossingAt(Deg(targetAngle), label, a)

\* variant: the Moon-Node pair is tested like every other pair
checkCrossing_noNodeRule(targetAngle, label, a) ==
    CrossingAt(Deg(targetAngle), label, a)
    \o (IF targetAngle # 0 /\ targetAngle # 180
        THEN CrossingAt(0 - Deg(targetAngle), label, a)
        ELSE << >>)

checkCrossing(targetAngle, label, a) ==
    IF a.isMoonNode /\ (targetAngle = 0 \/ targetAngle = 180) THEN << >>
    ELSE CrossingAt(Deg(targetAngle), label, a)
         \o (IF targetAngle # 0 /\ targetAngle # 180
             THEN CrossingAt(0 - Deg(targetAngle), label, a)
             ELSE << >>)

\* variant: with the deep aspects shown, the major aspects are left to them
checkAspects_deepInstead(a) ==
    checkCrossing(0, "Conjunction", a)
    \o checkCrossing(180, "Opposition", a)
    \o (IF a.st.showAstrology /\ ~a.st.showDeepAstrology
        THEN checkCrossing(120, "Trine", a)
             \o checkCrossing(90, "Square", a)
             \o checkCrossing(60, "Sextile", a)
        ELSE << >>)
    \o (IF a.st.showDeepAstrology
        THEN checkCrossing(30, "Semi-Sextile", a)
             \o checkCrossing(45, "Semi-Square", a)
             \o checkCrossing(72, "Quintile", a)
             \o checkCrossing(135, "Sesquiquadrate", a)
             \o checkCrossing(144, "Bi-Quintile", a)
        ELSE << >>)

\* variant: the major aspects are tested under showAstrology alone
checkAspects_astrologyOnly(a) ==
    checkCrossing(0, "Conjunction", a)
    \o checkCrossing(180, "Opposition", a)
    \o (IF a.st.showAstrology
        THEN checkCrossing(120, "Trine", a)
             \o checkCrossing(90, "Square", a)
             \o checkCrossing(60, "Sextile", a)
        ELSE << >>)
    \o (IF a.st.showDeepAstrology
        THEN checkCrossing(30, "Semi-Sextile", a)
             \o checkCrossing(45, "Semi-Square", a)
             \o checkCrossing(72, "Quintile", a)
             \o checkCrossing(135, "Sesquiquadrate", a)
             \o checkCrossing(144, "Bi-Quintile", a)
        ELSE << >>)

\* the events checkAspects pushes
checkAspects(a) ==
    checkCrossing(0, "Conjunction", a)
    \o checkCrossing(180, "Opposition", a)
    \o (IF a.st.showAstrology \/ a.st.showDeepAstrology
        THEN checkCrossing(120, "Trine", a)
             \o checkCrossing(90, "Square", a)
             \o checkCrossing(60, "Sextile", a)
        ELSE << >>)
    \o (IF a.st.showDeepAstrology
        THEN checkCrossing(30, "Semi-Sextile", a)
             \o checkCrossing(45, "Semi-Square", a)
             \o checkCrossing(72, "Quintile", a)
             \o checkCrossing(135, "Sesquiquadrate", a)
             \o checkCrossing(144, "Bi-Quintile", a)
        ELSE << >>)

AspectArgs(name1, start1, end1, name2, start2, end2, isMoonNode, st, tz) ==
    [ name1 |-> name1, start1 |-> start1, end1 |-> end1,
      name2 |-> name2, start2 |-> start2, end2 |-> end2,
      startTimeMs |-> 0, isMoonNode |-> isMoonNode, st |-> st, tz |-> tz ]

baseBodies ==
    << [ id |-> "sun", name |-> "Sun" ],
       [ id |-> "mercury", name |-> "Mercury" ],
       [ id |-> "venus", name |-> "Venus" ],
       [ id |-> "mars", name |-> "Mars" ],
       [ id |-> "jupiter", name |-> "Jupiter" ],
       [ id |-> "saturn", name |-> "Saturn" ],
       [ id |-> "uranus", name |-> "Uranus" ],
       [ id |-> "neptune", name |-> "Neptune" ] >>

deepBodies ==
    << [ id |-> "pluto", name |-> "Pluto" ],
       [ id |-> "chiron", name |-> "Chiron" ],
       [ id |-> "node", name |-> "Node" ] >>

\* the bodies array once the deep bodies are pushed; without
\* showDeepAstrology the array is its first Len(baseBodies) entries
bodies == baseBodies \o deepBodies

NumBodies(st) ==
    IF st.showDeepAstrology THEN Len(bodies) ELSE Len(baseBodies)

\* the station test of one body; lon is the body's longitude a day before,
\* at the start, at the end and a day after the end of the queried day
StationEvents(body, lon, st) ==
    IF st.showRetrogrades /\ body.id # "node" /\ body.id # "sun"
    THEN LET w(v) == LET u == IF v < 0 - HalfCircle THEN v + FullCircle ELSE v
                     IN  IF u > HalfCircle THEN u - FullCircle ELSE u
             v1 == w(lon.start - lon.prev)
             v2 == w(lon.next - lon.start)
         IN  \* Math.abs(v1) > 0.0001 degrees
             IF Sign(v1) # Sign(v2) /\ Abs(v1) * 10000 > Deg(1)
             THEN << Event(12 * MsPerHour, Text(Untimed, "stat.", body.name, "")) >>
             ELSE << >>
    ELSE << >>

\* the pairs (i, j), i < j <= n, in the order of the two loops
PairOrder(n) ==
    Flatten([ i \in 1..n |-> [ k \in 1..(n - i) |-> << i, i + k >> ] ])

PairOrders == [ n \in { Len(baseBodies), Len(bodies) } |-> PairOrder(n) ]

\* the checkAspects call of the pair (i, j) of the planet-vs-planet loops
PairAspects(i, j, sky, st, tz) ==
    IF bodies[i].id = "uranus" /\ bodies[j].id = "neptune" THEN << >>
    ELSE IF (bodies[i].id = "node" \/ bodies[j].id = "node") /\ ~st.showDeepAstrology
    THEN << >>
    ELSE checkAspects(AspectArgs(bodies[i].name, sky.pos[bodies[i].id].start,
                                 sky.pos[bodies[i].id].end,
                                 bodies[j].name, sky.pos[bodies[j].id].start,
                                 sky.pos[bodies[j].id].end,
                                 FALSE, st, tz))

getPlanetaryEvents(sky, st, tz) ==
    LET n == NumBodies(st)
        stations ==
            Flatten([ k \in 1..n |->
                StationEvents(bodies[k], sky.pos[bodies[k].id], st) ])
        moonAspects ==
            Flatten([ k \in 1..n |->
                checkAspects(AspectArgs("Moon", sky.moon.start, sky.moon.end,
                                        bodies[k].name, sky.pos[bodies[k].id].start,
                                        sky.pos[bodies[k].id].end,
                                        bodies[k].id = "node", st, tz)) ])
        pairAspects ==
            Flatten([ q \in 1..Len(PairOrders[n]) |->
                PairAspects(PairOrders[n][q][1], PairOrders[n][q][2], sky, st, tz) ])
    IN  stations \o moonAspects \o pairAspects

RECURSIVE TextsOf(_)
TextsOf(events) ==
    IF events = << >> THEN << >> ELSE << Head(events).text >> \o TextsOf(Tail(events))

\* getDataForDate of the celestial provider: the sorted rawEvents and the
\* returned items
CelestialGetDataForDate(in) ==
    IF ~in.st.enableCelestialEvents THEN [ rawEvents |-> << >>, items |-> << >> ]
    ELSE LET rawEvents == SortByTime(getLunarEvents(in.track, in.st, in.tz)
                                     \o getPlanetaryEvents(in.sky, in.st, in.tz))
             meteors == getMeteorShower(in.cal.m, in.cal.d)
         IN  [ rawEvents |-> rawEvents,
               items |-> TextsOf(rawEvents)
                         \o (IF meteors # ""
                             THEN << Text(Untimed, "Meteor Shower", meteors, "") >>
                             ELSE << >>) ]

(***************************************************************************)
(* PlanetProvider.getDataForDate.  Instants are minutes; longitudes and    *)
(* latitudes are half-degrees.                                             *)
(***************************************************************************)
\* a * b / CosScale for a in 0 .. CosScale and |b| <= CosScale; the product
\* is split so that no intermediate value leaves 32 bits
MulScaled(a, b) ==
    LET m == ((a \div 1000) * Abs(b)) \div 1000 + ((a % 1000) * Abs(b)) \div CosScale
    IN  IF b < 0 THEN 0 - m ELSE m

\* Math.acos(c / CosScale) in half-degrees, rounded down
AcosHalfDeg(c) ==
    CHOOSE k \in 0..HalfCircle :
        Cos(k) >= c /\ (k = HalfCircle \/ Cos(k + 1) < c)

\* variant: the separation in longitude alone
calculateElongation_lonOnly(pLon, pLat, sLon) ==
    LET dLon == Normalize180(pLon - sLon, FullCircle)
    IN  AcosHalfDeg(Cos(Abs(dLon)))

\* calculateElongation, in half-degrees
calculateElongation(pLon, pLat, sLon) ==
    LET dLon == Normalize180(pLon - sLon, FullCircle)
    IN  AcosHalfDeg(MulScaled(Cos(Abs(pLat)), Cos(Abs(dLon))))

planets ==
    << [ name |-> "Mercury", id |-> "mercury" ],
       [ name |-> "Venus", id |-> "venus" ],
       [ name |-> "Mars", id |-> "mars" ],
       [ name |-> "Jupiter", id |-> "jupiter" ],
       [ name |-> "Saturn", id |-> "saturn" ] >>

\* one line of the Sky Watch section: the status text without its time, the
\* time it quotes and whether " (Difficult)" is appended
PlanetLine(name, status, time, difficult) ==
    [ name |-> name, status |-> status, time |-> time, difficult |-> difficult ]

\* variant: the rise is tested before the set
VisibilityStatus_riseFirst(times, sunSet, sunRiseNext) ==
    LET pRise == times.riseDate
        pSet  == times.setDate
    IN  IF pSet > sunRiseNext
        THEN IF pRise < sunSet + 60
             THEN [ status |-> "Visible All Night", time |-> Untimed ]
             ELSE [ status |-> "Visible Most of Night", time |-> times.rise ]
        ELSE IF pRise > sunSet /\ pRise < sunRiseNext
        THEN [ status |-> "Visible in Morning", time |-> times.rise ]
        ELSE IF pSet > sunSet /\ pSet < sunRiseNext
        THEN IF pRise < sunSet
             THEN [ status |-> "Visible until", time |-> times.set ]
             ELSE [ status |-> "Visible Tonight", time |-> times.set ]
        ELSE [ status |-> "Not visible (Up during day)", time |-> Untimed ]

\* the visibility buckets, in the order of the sources
VisibilityStatus(times, sunSet, sunRiseNext) ==
    LET pRise == times.riseDate
        pSet  == times.setDate
    IN  IF pSet > sunRiseNext
        THEN IF pRise < sunSet + 60
             THEN [ status |-> "Visible All Night", time |-> Untimed ]
             ELSE [ status |-> "Visible Most of Night", time |-> times.rise ]
        ELSE IF pSet > sunSet /\ pSet < sunRiseNext
        THEN IF pRise < sunSet
             THEN [ status |-> "Visible until", time |-> times.set ]
             ELSE [ status |-> "Visible Tonight", time |-> times.set ]
        ELSE IF pRise > sunSet /\ pRise < sunRiseNext
        THEN [ status |-> "Visible in Morning", time |-> times.rise ]
        ELSE [ status |-> "Not visible (Up during day)", time |-> Untimed ]

\* variant: the qualifier follows the instants alone, whatever the status
IsDifficult_anyStatus(status, pRise, pSet, sunSet, sunRiseNext) ==
    Abs(pRise - sunRiseNext) < 90 \/ Abs(pSet - sunSet) < 90

\* whether " (Difficult)" is appended to a status
IsDifficult(status, pRise, pSet, sunSet, sunRiseNext) ==
    LET isHardRise == Abs(pRise - sunRiseNext) < 90
        isHardSet  == Abs(pSet - sunSet) < 90
    IN  \/ status = "Visible in Morning" /\ isHardRise
        \/ status = "Visible until" /\ isHardSet

RiseSetArgs(in, arc) ==
    [ cosH |-> arc.cosH, transit |-> arc.transit, date |-> in.date,
      tz |-> in.tz, use24 |-> in.use24 ]

\* variant: a planet without rise and set is classified like the others
PlanetItems_nullClassified(in, k, sunSet, sunRiseNext) ==
    LET times == calcRiseSet(RiseSetArgs(in, in.sky[k]))
        elong == calculateElongation(in.sky[k].lon, in.sky[k].lat, in.sLon)
        vis   == VisibilityStatus(times, sunSet, sunRiseNext)
    IN  IF elong < Deg(10)
        THEN << PlanetLine(planets[k].name, "Not visible (Too close to Sun)",
                           Untimed, FALSE) >>
        ELSE << PlanetLine(planets[k].name, vis.status, vis.time,
                           IsDifficult(vis.status, times.riseDate, times.setDate,
                                       sunSet, sunRiseNext)) >>

\* the pass of the loop for planet k: no line, or one line
PlanetItems(in, k, sunSet, sunRiseNext) ==
    LET times == calcRiseSet(RiseSetArgs(in, in.sky[k]))
        elong == calculateElongation(in.sky[k].lon, in.sky[k].lat, in.sLon)
        vis   == VisibilityStatus(times, sunSet, sunRiseNext)
    IN  IF times.isNull THEN << >>
        ELSE IF elong < Deg(10)
        THEN << PlanetLine(planets[k].name, "Not visible (Too close to Sun)",
                           Untimed, FALSE) >>
        ELSE << PlanetLine(planets[k].name, vis.status, vis.time,
                           IsDifficult(vis.status, times.riseDate, times.setDate,
                                       sunSet, sunRiseNext)) >>

PlanetGetDataForDate(in) ==
    IF ~in.enablePlanets THEN << >>
    ELSE LET sunTimes == calcRiseSet(RiseSetArgs(in, in.sun))
         IN  IF sunTimes.isNull THEN << >>
             ELSE Flatten([ k \in 1..Len(planets) |->
                     PlanetItems(in, k, sunTimes.setDate,
                                 sunTimes.riseDate + MinutesPerDay) ])

(***************************************************************************)
(* Sun provider.  Instants are minutes since 00:00 UTC of day 0 of the     *)
(* year (31 December); the observer's geometry gives, for each day of the  *)
(* year, the cosine of the hour angle and RA - 0.06571 t - 6.622 - lngHour *)
(***************************************************************************)
\* the Date of a daily note: local midnight of calendar day D
LocalMidnight(rule, D) ==
    IF TzOffsetAt(rule, D * MinutesPerDay - rule.dst) = rule.dst
    THEN D * MinutesPerDay - rule.dst
    ELSE D * MinutesPerDay - rule.std

\* Math.floor(diff / oneDay), diff being the wall-clock time elapsed since
\* new Date(year, 0, 0)
dayOfYear(rule, date) ==
    LET start == LocalMidnight(rule, 0)
        diff  == (date - start) + (TzOffsetAt(rule, date) - TzOffsetAt(rule, start))
    IN  diff \div MinutesPerDay

\* SunProvider.formatTime of a decimal time (whole minutes)
SunFormatTime(res, use24HourFormat) ==
    IF res.isNull THEN << "--:--" >>
    ELSE LET hours   == res.riseDate \div 60
             minutes == res.riseDate % 60
             seconds == 0
         IN  IF use24HourFormat THEN << hours, minutes, seconds, "" >>
             ELSE << IF hours % 12 = 0 THEN 12 ELSE hours % 12, minutes, seconds,
                     IF hours >= 12 THEN "PM" ELSE "AM" >>

SunTimeArgs(in, N, isSunrise, localOffset) ==
    [ fn |-> "sun", cosH |-> in.geometry[N].cosH, isSunrise |-> isSunrise,
      base |-> in.geometry[N].base, transit |-> 0, date |-> 0,
      tz |-> localOffset, use24 |-> in.use24 ]

\* variant: the offset in force when the query is made
getSunTimes_offsetOfNow(in, date, now) ==
    LET N           == dayOfYear(in.zone, date)
        localOffset == TzOffsetAt(in.zone, now)
        sunrise     == SunCalculateTime(SunTimeArgs(in, N, TRUE, localOffset))
        sunset      == SunCalculateTime(SunTimeArgs(in, N, FALSE, localOffset))
    IN  [ offset  |-> localOffset,
          sunrise |-> SunFormatTime(sunrise, in.use24),
          sunset  |-> SunFormatTime(sunset, in.use24) ]

\* SunProvider.getSunTimes, called while the system clock shows now
getSunTimes(in, date, now) ==
    LET N           == dayOfYear(in.zone, date)
        localOffset == TzOffsetAt(in.zone, date)
        sunrise     == SunCalculateTime(SunTimeArgs(in, N, TRUE, localOffset))
        sunset      == SunCalculateTime(SunTimeArgs(in, N, FALSE, localOffset))
    IN  [ offset  |-> localOffset,
          sunrise |-> SunFormatTime(sunrise, in.use24),
          sunset  |-> SunFormatTime(sunset, in.use24) ]

\* SunProvider.getDataForDate: the items, and the offset the conversion used
SunGetDataForDate(in, now) ==
    IF ~in.enableSun THEN [ offset |-> 0, items |-> << >> ]
    ELSE IF ~in.located
    THEN [ offset |-> 0,
           items |-> << [ label |-> "Sun Times: Please set Latitude/Longitude",
                          time |-> << >> ] >> ]
    ELSE LET times == getSunTimes(in, LocalMidnight(in.zone, in.day), now)
         IN  [ offset |-> times.offset,
               items |-> << [ label |-> "Sunrise", time |-> times.sunrise ],
                            [ label |-> "Sunset", time |-> times.sunset ] >> ]

(***************************************************************************)
(* Position lookups.  A call returns a longitude (half-degrees) or throws. *)
(***************************************************************************)
Returned(lon) == [ threw |-> FALSE, lon |-> lon ]
Threw == [ threw |-> TRUE, lon |-> 0 ]

\* the keys of elems in getBodyLongitude
BodyElems ==
    { "mercury", "venus", "mars", "jupiter", "saturn", "uranus", "neptune",
      "pluto", "chiron" }

\* the keys of elems in getPlanetPosition
PlanetElems == { "mercury", "venus", "mars", "jupiter", "saturn" }

\* CelestialEventsProvider.getBodyLongitude at one of the four instants
\* getPlanetaryEvents asks for
getBodyLongitude(sky, when, bodyId) ==
    IF bodyId = "node" THEN Returned(sky.pos["node"][when])
    ELSE IF bodyId = "sun" THEN Returned(sky.pos["sun"][when])
    ELSE IF bodyId \notin BodyElems THEN Returned(0)      \* if (!p) return 0
    ELSE Returned(sky.pos[bodyId][when])

\* PlanetProvider.getPlanetPosition: elems[planet] is undefined for any other
\* key, and reading p.M of undefined throws a TypeError
getPlanetPosition(sky, when, planet) ==
    IF planet \notin PlanetElems THEN Threw
    ELSE Returned(sky.pos[planet][when])

(***************************************************************************)
(* insertOrUpdateSection.  A note is the sequence of its lines             *)
(* (content.split('\n')); a line is its leading white space or bullet       *)
(* mark, its body and its trailing white space.                            *)
(***************************************************************************)
Line(lead, body, trail) == [ lead |-> lead, body |-> body, trail |-> trail ]

\* the bodies that begin with '#'
HashBodies == { "## Moon Phase", "## Daily Context", "## Weather", "#idea" }

\* line.trim()
Trim(line) ==
    [ lead |-> IF line.lead = " " THEN "" ELSE line.lead,
      body |-> line.body, trail |-> "" ]

\* line.startsWith('#')
StartsWithHash(line) == line.lead = "" /\ line.body \in HashBodies

\* `- ${item}`
Bullet(item) == Line("- ", item, "")

RECURSIVE Bullets(_)
Bullets(items) ==
    IF items = << >> THEN << >> ELSE << Bullet(Head(items)) >> \o Bullets(Tail(items))

\* lines.findIndex(...): the first index of the set, 0 for none (-1 in the
\* sources, whose indices start at 0)
FirstIndex(S) == IF S = {} THEN 0 ELSE CHOOSE i \in S : \A j \in S : i <= j

\* lines.splice(start, deleteCount, ...new), start counted from 0
Splice(lines, start, deleteCount, new) ==
    SubSeq(lines, 1, start) \o new \o SubSeq(lines, start + deleteCount + 1, Len(lines))

\* existingContent.includes(item.trim()) for an item of one line
Includes(lines, from, to, item) ==
    \E i \in from..to : lines[i].body = item

RECURSIVE ItemsToAdd(_, _, _, _)
ItemsToAdd(lines, from, to, items) ==
    IF items = << >> THEN << >>
    ELSE (IF Includes(lines, from, to, Head(items)) THEN << >>
          ELSE << Bullet(Head(items)) >>)
         \o ItemsToAdd(lines, from, to, Tail(items))

\* variant: the replaced range reaches one line further
insertOrUpdateSection_throughNext(lines, header, newItems, replace) ==
    LET headerIndex == FirstIndex({ i \in 1..Len(lines) : Trim(lines[i]) = Trim(header) })
        found       == FirstIndex({ i \in 1..Len(lines) :
                                      i > headerIndex /\ StartsWithHash(lines[i]) })
        sectionEndIndex == IF found = 0 THEN Len(lines) + 1 ELSE found
    IN  IF headerIndex = 0
        THEN lines \o << header >>
             \o (IF newItems = << >> THEN << Line("", "", "") >> ELSE Bullets(newItems))
        ELSE IF replace
        THEN Splice(lines, headerIndex, sectionEndIndex - headerIndex, Bullets(newItems))
        ELSE Splice(lines, sectionEndIndex - 1, 0,
                    ItemsToAdd(lines, headerIndex + 1, sectionEndIndex - 1, newItems))

\* insertOrUpdateSection(content, header, newItems, replace); indices count
\* from 1 here
insertOrUpdateSection(lines, header, newItems, replace) ==
    LET headerIndex == FirstIndex({ i \in 1..Len(lines) : Trim(lines[i]) = Trim(header) })
        found       == FirstIndex({ i \in 1..Len(lines) :
                                      i > headerIndex /\ StartsWithHash(lines[i]) })
        sectionEndIndex == IF found = 0 THEN Len(lines) + 1 ELSE found
    IN  IF headerIndex = 0
        THEN lines \o << header >>
             \o (IF newItems = << >> THEN << Line("", "", "") >> ELSE Bullets(newItems))
        ELSE IF replace
        THEN Splice(lines, headerIndex, sectionEndIndex - (headerIndex + 1), Bullets(newItems))
        ELSE Splice(lines, sectionEndIndex - 1, 0,
                    ItemsToAdd(lines, headerIndex + 1, sectionEndIndex - 1, newItems))

(***************************************************************************)
(* activateMagic.  A provider is its targetHeader and what its             *)
(* getDataForDate does for the note's date: throw, or return items.        *)
(***************************************************************************)
Items(items) == [ threw |-> FALSE, items |-> items ]

Thrown == [ threw |-> TRUE, items |-> << >> ]

\* the body of the try block for one provider: the value of currentContent
\* after it
TryProvider(currentContent, provider, replaceContext) ==
    IF provider.result.threw THEN currentContent
    ELSE IF Len(provider.result.items) > 0
    THEN insertOrUpdateSection(currentContent, provider.targetHeader,
                               provider.result.items, replaceContext)
    ELSE currentContent

\* variant: an error of a provider ends the loop
AfterCatch_endLoop(i, n, threw) ==
    IF threw THEN n + 1 ELSE i + 1

\* the index of the provider the loop goes on with after provider i of n,
\* whether its try block completed or its catch block logged the error
AfterCatch(i, n, threw) ==
    i + 1

(***************************************************************************)
(* State                                                                   *)
(***************************************************************************)
VARIABLES
    phPc, phIn, phOut,      \* one call of calculatePhase: inputs and result
    cPc, cIn, cOut,         \* one call of getAstronomicalConstellation
    mPc, mIn, mItems,       \* one query of the moon provider: inputs, items
    rsPc, rsIn, rsOut,      \* rise/set calls: inputs, and the values returned
    aPc, aIn, aOut,         \* checkAspects on a pair of bodies, both ways round
    cePc, ceIn, ceOut,      \* one query of the celestial events provider
    plPc, plIn, plItems,    \* one query of the planet provider: inputs, items
    suIn, suNow, suLog,     \* queries of the sun provider: inputs, system clock, results
    fgIn, fgSt, fgLog,      \* queries of the celestial provider between changes of the flags
    bdPc, bdIn, bdOut,      \* one position lookup of a body: inputs and outcome
    ntContent, ntCall, ntCalls,\* the note being written: its lines, the last call, the number of calls
    dyIn, dyDay, dyLog,     \* the lunar scan of consecutive days: track, next day, events
    amIn, amPc, amNext, amContent, amMods, amVault, amWrites, amLog\* one run of activateMagic: inputs, position, loop index, content, flag, vault file, writes, passes

phaseVars == << phPc, phIn, phOut >>
constVars == << cPc, cIn, cOut >>
moonVars == << mPc, mIn, mItems >>
riseSetVars == << rsPc, rsIn, rsOut >>
aspectVars == << aPc, aIn, aOut >>
celestialVars == << cePc, ceIn, ceOut >>
planetVars == << plPc, plIn, plItems >>
sunVars == << suIn, suNow, suLog >>
flagVars == << fgIn, fgSt, fgLog >>
bodyVars == << bdPc, bdIn, bdOut >>
noteVars == << ntContent, ntCall, ntCalls >>
dayVars == << dyIn, dyDay, dyLog >>
magicVars == << amIn, amPc, amNext, amContent, amMods, amVault, amWrites, amLog >>
vars == << phPc, phIn, phOut, cPc, cIn, cOut, mPc, mIn, mItems,
          rsPc, rsIn, rsOut, aPc, aIn, aOut, cePc, ceIn, ceOut,
          plPc, plIn, plItems,
          suIn, suNow, suLog,
          fgIn, fgSt, fgLog,
          bdPc, bdIn, bdOut,
          ntContent, ntCall, ntCalls,
          dyIn, dyDay, dyLog,
          amIn, amPc, amNext, amContent, amMods, amVault, amWrites, amLog >>

\* longitudes handed to the moon provider's pure functions: negative
\* values and values beyond one circle included
Longitudes == (0 - LonTurns * FullCircle) .. ((LonTurns + 1) * FullCircle - 1)

\* sun longitudes paired with every moon longitude
PhaseSunLons == { 0 - 725, 0, 1, 45, 433, 1500 }

\* ecliptic latitudes on either side of every intruder threshold
ConstLatitudes == { 0 - 11, 0 - 8, 0 - 7, 0 - 6, 0 - 5, 0 - 2, 0 - 1, 0, 9, 10 }

\* UTC offsets of the observer's clock, in hours: west, zero and east
TzOffsets == { 0 - 5, 0, 2 }

\* instants of a new moon (hours, UTC): early morning, morning and evening
NewMoonEpochs == { 3, 9, 20 }

\* altitude tracks: moon up all day, down all day, rising then setting,
\* setting then rising, grazing the horizon
AltTracks ==
    { [ a |-> 1, b |-> 1, c |-> 1, c1 |-> 1, c2 |-> 2 ],
      [ a |-> 0 - 1, b |-> 0 - 1, c |-> 0 - 1, c1 |-> 1, c2 |-> 2 ],
      [ a |-> 0 - 1, b |-> 1, c |-> 0 - 1, c1 |-> 31, c2 |-> 104 ],
      [ a |-> 1, b |-> 0 - 1, c |-> 1, c1 |-> 5, c2 |-> 180 ],
      [ a |-> 0 - 1, b |-> 0, c |-> 0 - 1, c1 |-> 60, c2 |-> 61 ] }

MoonInputs ==
    [ day : 0..MaxTargetDay, tz : TzOffsets, epoch : NewMoonEpochs,
      lat : { 0 - 8, 0 }, alt : AltTracks, located : BOOLEAN,
      enableMoon : BOOLEAN, use24 : BOOLEAN,
      enableMoonTimes : { TRUE }, enableMoonAge : { TRUE },
      enableMoonPosition : { TRUE } ]
    \cup
    [ day : { 15 }, tz : { 0 }, epoch : { 3 },
      lat : { 0 }, alt : AltTracks, located : { TRUE },
      enableMoon : BOOLEAN, use24 : { FALSE },
      enableMoonTimes : BOOLEAN, enableMoonAge : BOOLEAN,
      enableMoonPosition : BOOLEAN ]

\* time zones of the planet provider's observer: fixed offsets west of, at
\* and east of UTC, and a zone that goes from UTC+1 to UTC+2 at 01:00 UTC of
\* the second queried date
PlanetZones ==
    { FixedZone(0 - 300), FixedZone(0), FixedZone(120),
      [ std |-> 60, dst |-> 120, from |-> 1500, to |-> 300000 ] }

\* inputs of one rise/set computation: the sun provider's calculateTime
\* (fn = "sun") or the planet provider's calcRiseSet (fn = "planet")
RiseSetInputs ==
    [ fn : { "sun" }, cosH : CosHValues, isSunrise : BOOLEAN,
      base : { 0 - 100, 400, 1500 }, transit : { 0 },
      date : { 0 }, tz : { 0 - 300, 0, 120 }, use24 : { TRUE } ]
    \cup
    [ fn : { "planet" }, cosH : CosHValues, isSunrise : { FALSE },
      base : { 0 }, transit : { 0 - 200, 100, 1300, 1435, 3000 },
      date : { 720, 2400 }, tz : PlanetZones, use24 : BOOLEAN ]

\* the aspect angles of checkAspects (degrees)
AspectAngles == { 0, 180, 120, 90, 60, 30, 45, 72, 135, 144 }

\* differences start1 - start2 around every aspect angle taken either way:
\* just short of it, exactly on it and just past it
AspectDiffs ==
    { s * Deg(ang) + d : s \in { 0 - 1, 1 }, ang \in AspectAngles, d \in { 0 - 3, 0, 2 } }

DefaultSettings ==
    [ enableCelestialEvents |-> TRUE, showAdvancedAstronomy |-> FALSE,
      showAstrology |-> FALSE, showDeepAstrology |-> FALSE,
      showRetrogrades |-> FALSE, use24HourFormat |-> FALSE ]

\* arguments of one checkAspects call: the second body from the start of
\* the circle, inside it, or at the sun's unnormalised longitude; either
\* body direct, at rest or retrograde; the first at the moon's pace or
\* faster than the 20 degrees of the guard
AspectInputs ==
    { [ start1 |-> start2 + diff, end1 |-> start2 + diff + move1,
        start2 |-> start2, end2 |-> start2 + move2,
        isMoonNode |-> isMoonNode,
        st |-> [ DefaultSettings EXCEPT !.showAstrology = astro,
                                        !.showDeepAstrology = deep ] ] :
      start2 \in { 0, 300, 20000 }, move2 \in { 0 - 2, 0, 2 },
      diff \in AspectDiffs, move1 \in { 0 - 10, 0, 5, 26, 50 },
      isMoonNode \in BOOLEAN, astro \in BOOLEAN, deep \in BOOLEAN }

\* UTC offsets of the observer's clock in milliseconds
CelestialTz == { 0 - 5 * MsPerHour, 0, 2 * MsPerHour }

\* local calendar dates (month from 0, day): inside the Quadrantids, outside
\* every shower, inside the Ursids
CalDates == { [ m |-> 0, d |-> 5 ], [ m |-> 5, d |-> 15 ], [ m |-> 11, d |-> 21 ] }

\* hours of the day at which a signal of the moon starts to change: in the
\* first hour, mid-day, in the last hours
SignalHours == { 0, 10, 22 }

Signals(pats, ats) == { [ pat |-> p, at |-> h ] : p \in pats, h \in ats }

\* ecliptic latitude: no crossing, a crossing either way, a sample exactly
\* on the ecliptic, a touch of the ecliptic from the north
LatPatterns ==
    { << 1 >>, << 0 - 1, 1 >>, << 1, 0 - 1 >>, << 0 - 2, 0, 1 >>, << 0, 1 >>,
      << 1, 0, 1 >> }

\* declination: steady, crossing the equator, touching it from the north,
\* a northern and a southern extreme beyond 18 degrees, an extreme short of
\* 18 degrees, an extreme held for an hour
DecPatterns ==
    { << 5 >>, << 0 - 1, 2 >>, << 19, 0, 19 >>, << 19, 20, 19 >>,
      << 0 - 19, 0 - 20, 0 - 19 >>, << 17, 18, 17 >>, << 19, 20, 20, 19 >> }

\* distance: steady, a perigee, an apogee, a perigee held for an hour
DistPatterns ==
    { << 5 >>, << 3, 2, 3 >>, << 2, 3, 2 >>, << 3, 2, 2, 3 >> }

QuietSignal == [ pat |-> << 5 >>, at |-> 0 ]

QuietTrack == [ lat |-> QuietSignal, dec |-> QuietSignal, dist |-> QuietSignal ]

\* the moon on the ecliptic at the first and at the last sample of the scan,
\* north of it in between
NodeAtBothEnds ==
    [ lat  |-> [ pat |-> [ k \in 1..(steps + 1) |->
                             IF k = 1 \/ k = steps + 1 THEN 0 ELSE 1 ],
                 at |-> 0 ],
      dec  |-> QuietSignal,
      dist |-> QuietSignal ]

MoonTracks ==
    [ lat  : Signals(LatPatterns, SignalHours),
      dec  : Signals(DecPatterns, { 10 }),
      dist : Signals(DistPatterns, { 10, 22 }) ]
    \cup { QuietTrack, NodeAtBothEnds }

BodyIds ==
    { "sun", "mercury", "venus", "mars", "jupiter", "saturn", "uranus",
      "neptune", "pluto", "chiron", "node" }

\* longitudes (half-degrees) at which the bodies that do not move rest; the
\* sun's is not reduced to one circle
Parked ==
    [ sun |-> 1480, mercury |-> 100, venus |-> 250, mars |-> 330,
      jupiter |-> 470, saturn |-> 610, uranus |-> 30, neptune |-> 680,
      pluto |-> 400, chiron |-> 150, node |-> 520 ]

AtRest(l) == [ prev |-> l, start |-> l, end |-> l, next |-> l ]

\* the motion of the one body that moves: direct, retrograde, turning
\* retrograde at the start of the day, direct through the end of the circle,
\* and further in a day than the 20 degrees of the guard
Motions ==
    { [ prev |-> 96, start |-> 98, end |-> 102, next |-> 104 ],
      [ prev |-> 254, start |-> 252, end |-> 248, next |-> 246 ],
      [ prev |-> 327, start |-> 329, end |-> 328, next |-> 327 ],
      [ prev |-> 716, start |-> 718, end |-> 2, next |-> 4 ],
      [ prev |-> 60, start |-> 90, end |-> 140, next |-> 190 ] }

\* the moon's longitude at the start and at the end of the day: at rest, at
\* its pace of 13 degrees a day past Mercury, from a negative longitude, and
\* through the end of the circle
MoonMotions ==
    { [ start |-> 5, end |-> 5 ], [ start |-> 90, end |-> 116 ],
      [ start |-> 0 - 20, end |-> 6 ], [ start |-> 710, end |-> 16 ] }

Sky(moon, mover, motion) ==
    [ moon |-> moon,
      pos  |-> [ id \in BodyIds |-> IF id = mover THEN motion ELSE AtRest(Parked[id]) ] ]

QuietSky == Sky([ start |-> 5, end |-> 5 ], "none", AtRest(0))

Skies ==
    { Sky(moon, mover, motion) :
        moon \in MoonMotions, mover \in BodyIds, motion \in Motions }
    \cup { QuietSky }

\* skies whose mover turns between the start of the next day and its end, or
\* turns during the queried day and back during the next
StationSkies ==
    { Sky([ start |-> 5, end |-> 5 ], mover, motion) :
        mover \in { "venus", "mars" },
        motion \in { [ prev |-> 327, start |-> 329, end |-> 330, next |-> 328 ],
                     [ prev |-> 327, start |-> 329, end |-> 328, next |-> 330 ],
                     [ prev |-> 329, start |-> 329, end |-> 328, next |-> 327 ] } }

AllSettings ==
    [ enableCelestialEvents : BOOLEAN, showAdvancedAstronomy : BOOLEAN,
      showAstrology : BOOLEAN, showDeepAstrology : BOOLEAN,
      showRetrogrades : BOOLEAN, use24HourFormat : BOOLEAN ]

\* queries of the celestial provider: every track of the moon under a
\* quiet sky, every sky under a quiet moon, and a few tracks under a few
\* skies with every combination of the settings
CelestialInputs ==
    [ track : MoonTracks, sky : { QuietSky },
      st : { t \in AllSettings : t.enableCelestialEvents /\ ~t.showAstrology
                                 /\ ~t.showDeepAstrology /\ ~t.showRetrogrades
                                 /\ t.use24HourFormat },
      tz : CelestialTz, cal : { [ m |-> 5, d |-> 15 ] } ]
    \cup
    [ track : { QuietTrack }, sky : Skies,
      st : { t \in AllSettings : t.enableCelestialEvents /\ ~t.showAdvancedAstronomy
                                 /\ t.use24HourFormat },
      tz : { 0 }, cal : { [ m |-> 5, d |-> 15 ] } ]
    \cup
    [ track : { NodeAtBothEnds,
                [ lat  |-> [ pat |-> << 0 - 1, 1 >>, at |-> 10 ],
                  dec  |-> [ pat |-> << 19, 0, 19 >>, at |-> 10 ],
                  dist |-> [ pat |-> << 3, 2, 3 >>, at |-> 22 ] ] },
      sky : { QuietSky,
              Sky([ start |-> 90, end |-> 116 ], "venus",
                  [ prev |-> 254, start |-> 252, end |-> 248, next |-> 246 ]),
              Sky([ start |-> 0 - 20, end |-> 6 ], "mars",
                  [ prev |-> 327, start |-> 329, end |-> 328, next |-> 327 ]) },
      st : AllSettings, tz : CelestialTz, cal : CalDates ]
    \cup
    [ track : { QuietTrack }, sky : StationSkies,
      st : { t \in AllSettings : t.enableCelestialEvents /\ t.showRetrogrades
                                 /\ ~t.showAdvancedAstronomy /\ t.use24HourFormat },
      tz : { 0 }, cal : { [ m |-> 5, d |-> 15 ] } ]

\* the rise/set geometry of a body: cos H in thousandths and the transit
\* before it is wrapped (minutes UTC)
Arc(cosH, transit) == [ cosH |-> cosH, transit |-> transit ]

\* a planet's arc across the sky: up from the afternoon to the next morning,
\* from the late evening to the next morning, from the morning to the
\* evening, setting an hour after sunset, up for 46 minutes just after
\* sunset, rising and setting at once in the night, up for 46 minutes before
\* the first minutes of the UTC day, setting at the minute of the next
\* sunrise, up during the day, never rising, up for 48 minutes of the small
\* hours of the UTC day
PlanetArcs ==
    { Arc(0 - 500, 1400), Arc(0, 100), Arc(0, 900), Arc(0, 780), Arc(995, 1105),
      Arc(1000, 1300), Arc(995, 3), Arc(500, 122), Arc(500, 700), Arc(1500, 700),
      Arc(995, 200) }

\* ecliptic position of a planet (longitude, latitude) for a sun at 357
\* degrees: 5, exactly 10 and 53 degrees from the sun along the ecliptic, 3
\* degrees from it across the start of the circle, and off the ecliptic
\* short of and beyond 10 degrees from the sun
PlanetPositions ==
    { << 4, 0 >>, << 14, 0 >>, << 100, 0 >>, << 0 - 12, 0 >>, << 12, 4 >>,
      << 10, 14 >> }

\* the observer: at UTC with the sun in transit at 12:00 UTC, or at UTC+5
\* with the sun in transit at 06:25 UTC; date is the observer's noon
Observers ==
    { [ tz |-> FixedZone(0), date |-> 720, sunTransit |-> 720 ],
      [ tz |-> FixedZone(300), date |-> 420, sunTransit |-> 385 ] }

\* queries of the planet provider: planet p with any arc and position, the
\* other planets sharing one arc 53 degrees from the sun
PlanetInputs ==
    { [ enablePlanets |-> en, date |-> ob.date, tz |-> ob.tz, use24 |-> u,
        sun |-> Arc(sunCosH, ob.sunTransit), sLon |-> 714,
        sky |-> [ k \in 1..Len(planets) |->
                    IF k = p
                    THEN [ cosH |-> arcA.cosH, transit |-> arcA.transit,
                           lon |-> pos[1], lat |-> pos[2] ]
                    ELSE [ cosH |-> arcB.cosH, transit |-> arcB.transit,
                           lon |-> 100, lat |-> 0 ] ] ] :
      en \in BOOLEAN, ob \in Observers, u \in BOOLEAN, sunCosH \in { 0, 1500 },
      p \in 1..Len(planets), arcA \in PlanetArcs, pos \in PlanetPositions,
      arcB \in { Arc(1500, 700), Arc(500, 700), Arc(0, 900) } }
\* rests at these values
IdlePhase ==
    /\ phPc = "off"
    /\ phIn = [ moonLon |-> 0, sunLon |-> 0 ]
    /\ phOut = calculatePhase(0, 0)

\* a variable of a provider that the specification at hand does not run

IdleConst ==
    /\ cPc = "off"
    /\ cIn = [ lon |-> 0, lat |-> 0 ]
    /\ cOut = "none"

IdleMoon ==
    /\ mPc = "off"
    /\ mIn = [ day |-> 0, tz |-> 0, epoch |-> 0, lat |-> 0,
               alt |-> [ a |-> 1, b |-> 1, c |-> 1, c1 |-> 1, c2 |-> 2 ],
               located |-> FALSE, enableMoon |-> FALSE, use24 |-> FALSE ]
    /\ mItems = << >>

IdleRiseSet ==
    /\ rsPc = "off"
    /\ rsIn = << >>
    /\ rsOut = << >>

IdleAspect ==
    /\ aPc = "off"
    /\ aIn = << >>
    /\ aOut = << >>

IdleCelestial ==
    /\ cePc = "off"
    /\ ceIn = << >>
    /\ ceOut = [ rawEvents |-> << >>, items |-> << >> ]

IdlePlanet ==
    /\ plPc = "off"
    /\ plIn = << >>
    /\ plItems = << >>

\* the provider is queried at most MaxSunQueries times in one behaviour
MaxSunQueries == 2

\* the daily notes queried are those of the days 1 .. MaxSunDay of the year
MaxSunDay == 3

\* zones without daylight saving, one that goes from UTC+1 to UTC+2 at 01:00
\* UTC of day 2, and one that goes back from UTC+2 to UTC+1 at that instant
SunZones ==
    { FixedZone(0), FixedZone(0 - 300),
      [ std |-> 60, dst |-> 120, from |-> 2 * MinutesPerDay + 60, to |-> 300000 ],
      [ std |-> 60, dst |-> 120, from |-> 0 - 100000, to |-> 2 * MinutesPerDay + 60 ] }

\* observers: the hour angle and the base of the sunrise equation for each
\* day of the year; the third has a day on which the sun does not rise
SunGeometries ==
    { [ n \in 0..MaxSunDay |-> [ cosH |-> 0, base |-> 700 - 4 * n ] ],
      [ n \in 0..MaxSunDay |-> [ cosH |-> 500, base |-> 1500 - 4 * n ] ],
      [ n \in 0..MaxSunDay |-> [ cosH |-> IF n = 2 THEN 1500 ELSE 995,
                                 base |-> 100 + 4 * n ] ] }

\* instants at which the user asks: day 0, either side of 01:00 UTC of day
\* 2, and day 5
SunClock == { 600, 2 * MinutesPerDay + 30, 2 * MinutesPerDay + 120, 5 * MinutesPerDay }

SunInputs ==
    { [ enableSun |-> en, located |-> loc, zone |-> z, day |-> D,
        geometry |-> g, use24 |-> u ] :
        en \in BOOLEAN, loc \in BOOLEAN, z \in SunZones, D \in 1..MaxSunDay,
        g \in SunGeometries, u \in BOOLEAN }

IdleSun ==
    /\ suIn = << >>
    /\ suNow = 0
    /\ suLog = << >>

\* the flags of the celestial provider the settings tab toggles
FeatureFlags ==
    { "showAdvancedAstronomy", "showAstrology", "showDeepAstrology", "showRetrogrades" }

\* the note is queried at most MaxFlagQueries times in one behaviour
MaxFlagQueries == 2

\* skies of the days queried while the flags change: the moon passing
\* Mercury or coming from a negative longitude, with Venus, Mars or the node
\* moving direct or turning retrograde
FlagSkies ==
    { Sky(moon, mover, motion) :
        moon \in { [ start |-> 90, end |-> 116 ], [ start |-> 0 - 20, end |-> 6 ] },
        mover \in { "venus", "mars", "node" },
        motion \in { [ prev |-> 96, start |-> 98, end |-> 102, next |-> 104 ],
                     [ prev |-> 327, start |-> 329, end |-> 328, next |-> 327 ] } }
    \cup { QuietSky }

\* the days queried: a moon at its node at both ends of the day, or one that
\* crosses its node and the equator and turns at its perigee
FlagDays ==
    [ track : { NodeAtBothEnds,
                [ lat  |-> [ pat |-> << 0 - 1, 1 >>, at |-> 10 ],
                  dec  |-> [ pat |-> << 19, 0, 19 >>, at |-> 10 ],
                  dist |-> [ pat |-> << 3, 2, 3 >>, at |-> 22 ] ] },
      sky : FlagSkies, tz : { 0 }, cal : { [ m |-> 5, d |-> 15 ] } ]

IdleFlags ==
    /\ fgIn = << >>
    /\ fgSt = << >>
    /\ fgLog = << >>

\* identifiers asked for: every body of the celestial provider, and three
\* that no table holds
AskedIds == BodyIds \cup { "moon", "ceres", "" }

BodyInputs ==
    [ fn : { "getBodyLongitude", "getPlanetPosition" }, sky : FlagSkies,
      when : { "prev", "start", "end", "next" }, bodyId : AskedIds ]

IdleBody ==
    /\ bdPc = "off"
    /\ bdIn = << >>
    /\ bdOut = Returned(0)

\* insertOrUpdateSection is applied at most MaxNoteCalls times to one note
MaxNoteCalls == 2

\* a note starts with at most MaxNoteLines lines
MaxNoteLines == 3

\* the lines a note starts with: two headers, one of them also with white
\* space around it, a tag line, an item written earlier, text, an empty line
NoteLines ==
    { Line("", "## Moon Phase", ""), Line(" ", "## Moon Phase", " "),
      Line("", "## Daily Context", ""), Line("", "#idea", ""),
      Line("- ", "Phase: Full Moon", ""), Line("", "slept well", ""),
      Line("", "", "") }

RECURSIVE NotesOfLength(_)
NotesOfLength(n) ==
    IF n = 0 THEN { << >> }
    ELSE { Append(s, l) : s \in NotesOfLength(n - 1), l \in NoteLines }

\* content.split('\n') has at least one line
Notes == UNION { NotesOfLength(n) : n \in 1..MaxNoteLines }

\* the headers of the providers that write, one of them not in any note at
\* the start, and the items they hand over
NoteHeaders == { Line("", "## Moon Phase", ""), Line("", "## Weather", "") }
NoteItems ==
    { << "Phase: Full Moon" >>, << "Moon Age: 14 days" >>,
      << "Phase: Full Moon", "Moon Age: 14 days" >> }

IdleNote ==
    /\ ntContent = << >>
    /\ ntCall = << >>
    /\ ntCalls = 0

IdleDays ==
    /\ dyIn = << >>
    /\ dyDay = 0
    /\ dyLog = << >>

IdleMagic ==
    /\ amIn = << >>
    /\ amPc = "off"
    /\ amNext = 0
    /\ amContent = << >>
    /\ amMods = FALSE
    /\ amVault = << >>
    /\ amWrites = 0
    /\ amLog = << >>

(***************************************************************************)
(* calculatePhase applied to a pair of longitudes                          *)
(***************************************************************************)
InitPhase ==
    /\ phPc = "call"
    /\ phIn \in [ moonLon : Longitudes, sunLon : PhaseSunLons ]
    /\ phOut = calculatePhase(0, 0)

CalculatePhase ==
    /\ phPc = "call"
    /\ phPc' = "done"
    /\ phOut' = calculatePhase(phIn.moonLon, phIn.sunLon)
    /\ UNCHANGED << phIn, constVars, moonVars, riseSetVars, aspectVars, celestialVars, planetVars, sunVars, flagVars, bodyVars, noteVars, dayVars, magicVars >>

NextPhase == CalculatePhase

StartPhase ==
    InitPhase /\ IdleConst /\ IdleMoon /\ IdleRiseSet /\ IdleAspect /\ IdleCelestial /\ IdlePlanet /\ IdleSun /\ IdleFlags /\ IdleBody /\ IdleNote /\ IdleDays /\ IdleMagic

SpecPhase == StartPhase /\ [][NextPhase]_vars

(***************************************************************************)
(* getAstronomicalConstellation applied to a position                      *)
(***************************************************************************)
InitConst ==
    /\ cPc = "call"
    /\ cIn \in [ lon : Longitudes, lat : ConstLatitudes ]
    /\ cOut = "none"

GetAstronomicalConstellation ==
    /\ cPc = "call"
    /\ cPc' = "done"
    /\ cOut' = getAstronomicalConstellation(cIn.lon, cIn.lat)
    /\ UNCHANGED << cIn, phaseVars, moonVars, riseSetVars, aspectVars, celestialVars, planetVars, sunVars, flagVars, bodyVars, noteVars, dayVars, magicVars >>

NextConst == GetAstronomicalConstellation

StartConst ==
    IdlePhase /\ InitConst /\ IdleMoon /\ IdleRiseSet /\ IdleAspect /\ IdleCelestial /\ IdlePlanet /\ IdleSun /\ IdleFlags /\ IdleBody /\ IdleNote /\ IdleDays /\ IdleMagic

SpecConst == StartConst /\ [][NextConst]_vars

(***************************************************************************)
(* One query of the moon provider for a daily note                         *)
(***************************************************************************)
InitMoon ==
    /\ mPc = "call"
    /\ mIn \in MoonInputs
    /\ mItems = << >>

MoonQuery ==
    /\ mPc = "call"
    /\ mPc' = "done"
    /\ mItems' = MoonGetDataForDate(mIn)
    /\ UNCHANGED << mIn, phaseVars, constVars, riseSetVars, aspectVars, celestialVars, planetVars, sunVars, flagVars, bodyVars, noteVars, dayVars, magicVars >>

NextMoon == MoonQuery

StartMoon ==
    IdlePhase /\ IdleConst /\ InitMoon /\ IdleRiseSet /\ IdleAspect /\ IdleCelestial /\ IdlePlanet /\ IdleSun /\ IdleFlags /\ IdleBody /\ IdleNote /\ IdleDays /\ IdleMagic

SpecMoon == StartMoon /\ [][NextMoon]_vars

(***************************************************************************)
(* Two rise/set computations for one observer whose hour-angle cosines     *)
(* differ (two dates of the year)                                          *)
(***************************************************************************)
InitRiseSet ==
    /\ rsPc = "call"
    /\ \E in \in RiseSetInputs, c2 \in CosHValues :
          rsIn = << in, [ in EXCEPT !.cosH = c2 ] >>
    /\ rsOut = << >>

\* the next computation is SunProvider.calculateTime
SunCalculateTimeCall ==
    /\ rsPc = "call"
    /\ rsIn[Len(rsOut) + 1].fn = "sun"
    /\ rsOut' = Append(rsOut, SunCalculateTime(rsIn[Len(rsOut) + 1]))
    /\ rsPc' = IF Len(rsOut') = Len(rsIn) THEN "done" ELSE "call"
    /\ UNCHANGED << rsIn, phaseVars, constVars, moonVars, aspectVars, celestialVars, planetVars, sunVars, flagVars, bodyVars, noteVars, dayVars, magicVars >>

\* the next computation is PlanetProvider.calcRiseSet
PlanetCalcRiseSetCall ==
    /\ rsPc = "call"
    /\ rsIn[Len(rsOut) + 1].fn = "planet"
    /\ rsOut' = Append(rsOut, calcRiseSet(rsIn[Len(rsOut) + 1]))
    /\ rsPc' = IF Len(rsOut') = Len(rsIn) THEN "done" ELSE "call"
    /\ UNCHANGED << rsIn, phaseVars, constVars, moonVars, aspectVars, celestialVars, planetVars, sunVars, flagVars, bodyVars, noteVars, dayVars, magicVars >>

NextRiseSet == SunCalculateTimeCall \/ PlanetCalcRiseSetCall

StartRiseSet ==
    IdlePhase /\ IdleConst /\ IdleMoon /\ InitRiseSet /\ IdleAspect /\ IdleCelestial /\ IdlePlanet /\ IdleSun /\ IdleFlags /\ IdleBody /\ IdleNote /\ IdleDays /\ IdleMagic

SpecRiseSet == StartRiseSet /\ [][NextRiseSet]_vars

(***************************************************************************)
(* checkAspects applied to a pair of bodies, and to the same pair with the *)
(* bodies exchanged                                                        *)
(***************************************************************************)
InitAspect ==
    /\ aPc = "call"
    /\ aIn \in AspectInputs
    /\ aOut = << >>

Swapped(in) ==
    [ in EXCEPT !.start1 = in.start2, !.end1 = in.end2,
                !.start2 = in.start1, !.end2 = in.end1 ]

CheckAspectsCall(in, name1, name2) ==
    checkAspects(AspectArgs(name1, in.start1, in.end1, name2, in.start2, in.end2,
                            in.isMoonNode, in.st, 0))

CheckAspects ==
    /\ aPc = "call"
    /\ aPc' = "done"
    /\ aOut' = [ ab |-> CheckAspectsCall(aIn, "A", "B"),
                 ba |-> CheckAspectsCall(Swapped(aIn), "B", "A") ]
    /\ UNCHANGED << aIn, phaseVars, constVars, moonVars, riseSetVars, celestialVars, planetVars, sunVars, flagVars, bodyVars, noteVars, dayVars, magicVars >>

NextAspect == CheckAspects

StartAspect ==
    IdlePhase /\ IdleConst /\ IdleMoon /\ IdleRiseSet /\ InitAspect /\ IdleCelestial /\ IdlePlanet /\ IdleSun /\ IdleFlags /\ IdleBody /\ IdleNote /\ IdleDays /\ IdleMagic

SpecAspect == StartAspect /\ [][NextAspect]_vars

(***************************************************************************)
(* One query of the celestial events provider for a daily note             *)
(***************************************************************************)
InitCelestial ==
    /\ cePc = "call"
    /\ ceIn \in CelestialInputs
    /\ ceOut = [ rawEvents |-> << >>, items |-> << >> ]

CelestialQuery ==
    /\ cePc = "call"
    /\ cePc' = "done"
    /\ ceOut' = CelestialGetDataForDate(ceIn)
    /\ UNCHANGED << ceIn, phaseVars, constVars, moonVars, riseSetVars, aspectVars, planetVars, sunVars, flagVars, bodyVars, noteVars, dayVars, magicVars >>

Next == CelestialQuery

Init ==
    IdlePhase /\ IdleConst /\ IdleMoon /\ IdleRiseSet /\ IdleAspect /\ InitCelestial /\ IdlePlanet /\ IdleSun /\ IdleFlags /\ IdleBody /\ IdleNote /\ IdleDays /\ IdleMagic

Spec == Init /\ [][Next]_vars

(***************************************************************************)
(* One query of the planet provider for a daily note                       *)
(***************************************************************************)
InitPlanet ==
    /\ plPc = "call"
    /\ plIn \in PlanetInputs
    /\ plItems = << >>

PlanetQuery ==
    /\ plPc = "call"
    /\ plPc' = "done"
    /\ plItems' = PlanetGetDataForDate(plIn)
    /\ UNCHANGED << plIn, phaseVars, constVars, moonVars, riseSetVars, aspectVars, celestialVars, sunVars, flagVars, bodyVars, noteVars, dayVars, magicVars >>

NextPlanet == PlanetQuery

StartPlanet ==
    IdlePhase /\ IdleConst /\ IdleMoon /\ IdleRiseSet /\ IdleAspect /\ IdleCelestial /\ InitPlanet /\ IdleSun /\ IdleFlags /\ IdleBody /\ IdleNote /\ IdleDays /\ IdleMagic

SpecPlanet == StartPlanet /\ [][NextPlanet]_vars

(***************************************************************************)
(* The user asks for the sun times of one daily note, now and again later  *)
(***************************************************************************)
InitSun ==
    /\ suIn \in SunInputs
    /\ suNow \in SunClock
    /\ suLog = << >>

\* activateMagic while the system clock shows suNow
SunQuery ==
    /\ Len(suLog) < MaxSunQueries
    /\ suLog' = Append(suLog, [ now |-> suNow, out |-> SunGetDataForDate(suIn, suNow) ])
    /\ UNCHANGED << suIn, suNow, phaseVars, constVars, moonVars, riseSetVars, aspectVars, celestialVars, planetVars, flagVars, bodyVars, noteVars, dayVars, magicVars >>

\* time passes between two activations
ClockAdvance ==
    /\ \E t \in SunClock : t > suNow /\ suNow' = t
    /\ UNCHANGED << suIn, suLog, phaseVars, constVars, moonVars, riseSetVars, aspectVars, celestialVars, planetVars, flagVars, bodyVars, noteVars, dayVars, magicVars >>

NextSun == SunQuery \/ ClockAdvance

StartSun ==
    IdlePhase /\ IdleConst /\ IdleMoon /\ IdleRiseSet /\ IdleAspect /\ IdleCelestial /\ IdlePlanet /\ InitSun /\ IdleFlags /\ IdleBody /\ IdleNote /\ IdleDays /\ IdleMagic

SpecSun == StartSun /\ [][NextSun]_vars

(***************************************************************************)
(* One daily note is queried, the user changes flags in the settings tab,  *)
(* and the note is queried again                                           *)
(***************************************************************************)
InitFlags ==
    /\ fgIn \in FlagDays
    /\ fgSt \in { t \in AllSettings : t.enableCelestialEvents }
    /\ fgLog = << >>

\* activateMagic with the settings as they are
FlagsQuery ==
    /\ Len(fgLog) < MaxFlagQueries
    /\ fgLog' = Append(fgLog,
          [ st |-> fgSt,
            out |-> CelestialGetDataForDate(
                        [ track |-> fgIn.track, sky |-> fgIn.sky, st |-> fgSt,
                          tz |-> fgIn.tz, cal |-> fgIn.cal ]) ])
    /\ UNCHANGED << fgIn, fgSt, phaseVars, constVars, moonVars, riseSetVars, aspectVars, celestialVars, planetVars, sunVars, bodyVars, noteVars, dayVars, magicVars >>

\* onChange of one of the four toggles: the setting takes the value v
SetFlag ==
    /\ Len(fgLog) = 1
    /\ \E f \in FeatureFlags, v \in BOOLEAN :
          /\ fgSt[f] # v
          /\ fgSt' = [ fgSt EXCEPT ![f] = v ]
    /\ UNCHANGED << fgIn, fgLog, phaseVars, constVars, moonVars, riseSetVars, aspectVars, celestialVars, planetVars, sunVars, bodyVars, noteVars, dayVars, magicVars >>

NextFlags == FlagsQuery \/ SetFlag

StartFlags ==
    IdlePhase /\ IdleConst /\ IdleMoon /\ IdleRiseSet /\ IdleAspect /\ IdleCelestial /\ IdlePlanet /\ IdleSun /\ InitFlags /\ IdleBody /\ IdleNote /\ IdleDays /\ IdleMagic

SpecFlags == StartFlags /\ [][NextFlags]_vars

(***************************************************************************)
(* One position lookup, for an identifier inside or outside the body set   *)
(***************************************************************************)
InitBody ==
    /\ bdPc = "call"
    /\ bdIn \in BodyInputs
    /\ bdOut = Returned(0)

GetBodyLongitudeCall ==
    /\ bdPc = "call"
    /\ bdIn.fn = "getBodyLongitude"
    /\ bdPc' = "done"
    /\ bdOut' = getBodyLongitude(bdIn.sky, bdIn.when, bdIn.bodyId)
    /\ UNCHANGED << bdIn, phaseVars, constVars, moonVars, riseSetVars, aspectVars, celestialVars, planetVars, sunVars, flagVars, noteVars, dayVars, magicVars >>

GetPlanetPositionCall ==
    /\ bdPc = "call"
    /\ bdIn.fn = "getPlanetPosition"
    /\ bdPc' = "done"
    /\ bdOut' = getPlanetPosition(bdIn.sky, bdIn.when, bdIn.bodyId)
    /\ UNCHANGED << bdIn, phaseVars, constVars, moonVars, riseSetVars, aspectVars, celestialVars, planetVars, sunVars, flagVars, noteVars, dayVars, magicVars >>

NextBody == GetBodyLongitudeCall \/ GetPlanetPositionCall

StartBody ==
    IdlePhase /\ IdleConst /\ IdleMoon /\ IdleRiseSet /\ IdleAspect /\ IdleCelestial /\ IdlePlanet /\ IdleSun /\ IdleFlags /\ InitBody /\ IdleNote /\ IdleDays /\ IdleMagic

SpecBody == StartBody /\ [][NextBody]_vars

(***************************************************************************)
(* The providers' items are written into a note, one section at a time     *)
(***************************************************************************)
InitNote ==
    /\ ntContent \in Notes
    /\ ntCall = << >>
    /\ ntCalls = 0

\* one pass of the loop of activateMagic for a provider that returned items
InsertOrUpdateSection ==
    /\ ntCalls < MaxNoteCalls
    /\ \E header \in NoteHeaders, newItems \in NoteItems, replace \in BOOLEAN :
          /\ ntCall' = [ before |-> ntContent, header |-> header,
                         newItems |-> newItems, replace |-> replace ]
          /\ ntContent' = insertOrUpdateSection(ntContent, header, newItems, replace)
    /\ ntCalls' = ntCalls + 1
    /\ UNCHANGED << phaseVars, constVars, moonVars, riseSetVars, aspectVars, celestialVars, planetVars, sunVars, flagVars, bodyVars, dayVars, magicVars >>

NextNote == InsertOrUpdateSection

StartNote ==
    IdlePhase /\ IdleConst /\ IdleMoon /\ IdleRiseSet /\ IdleAspect /\ IdleCelestial /\ IdlePlanet /\ IdleSun /\ IdleFlags /\ IdleBody /\ InitNote /\ IdleDays /\ IdleMagic

SpecNote == StartNote /\ [][NextNote]_vars

(***************************************************************************)
(* The lunar scan run for consecutive daily notes over one continuous      *)
(* hourly track of the moon                                                *)
(***************************************************************************)
\* number of consecutive days scanned
MaxScanDays == 2

\* a quantity that falls to (fall = 1) or rises to (fall = -1) its extreme
\* `peak` at hour `turn` of the run and changes by one every hour
Turning(peak, fall, turn) ==
    [ pat |-> [ k \in 1..(HoursPerDay * (MaxScanDays + 1) + 1) |->
                  peak + fall * Abs(k - 1 - turn) ],
      at |-> 0 ]

\* hours of the run at which the extreme is reached: in the first day, in
\* the hours around the midnight between the first two days, in the second
\* day
TurnHours == { 1, 12, 22, 23, 24, 25, 26, 36, 47 }

DayTracks ==
    { [ lat |-> QuietSignal, dec |-> dec, dist |-> dist ] :
        dec \in { QuietSignal } \cup { Turning(q[1], q[2], h) :
                     q \in { << 25, 0 - 1 >>, << 0 - 25, 1 >> }, h \in TurnHours },
        dist \in { QuietSignal } \cup { Turning(q[1], q[2], h) :
                     q \in { << 100, 1 >>, << 200, 0 - 1 >> }, h \in TurnHours } }

\* the track as the scan of day d samples it: hour i of day d is hour
\* i + 24 d of the run
TrackOfDay(track, d) ==
    [ q \in { "lat", "dec", "dist" } |->
        [ pat |-> track[q].pat, at |-> track[q].at - HoursPerDay * d ] ]

DaySettings ==
    [ DefaultSettings EXCEPT !.showAdvancedAstronomy = TRUE, !.use24HourFormat = TRUE ]

InitDays ==
    /\ dyIn \in DayTracks
    /\ dyDay = 0
    /\ dyLog = << >>

\* getLunarEvents for the next daily note
ScanDay ==
    /\ dyDay < MaxScanDays
    /\ dyLog' = Append(dyLog, getLunarEvents(TrackOfDay(dyIn, dyDay), DaySettings, 0))
    /\ dyDay' = dyDay + 1
    /\ UNCHANGED << dyIn, phaseVars, constVars, moonVars, riseSetVars, aspectVars, celestialVars, planetVars, sunVars, flagVars, bodyVars, noteVars, magicVars >>

NextDays == ScanDay

StartDays ==
    IdlePhase /\ IdleConst /\ IdleMoon /\ IdleRiseSet /\ IdleAspect /\ IdleCelestial /\ IdlePlanet /\ IdleSun /\ IdleFlags /\ IdleBody /\ IdleNote /\ InitDays /\ IdleMagic

SpecDays == StartDays /\ [][NextDays]_vars

(***************************************************************************)
(* One run of the command "Add context to current note"                    *)
(***************************************************************************)
\* number of providers in this.providers
MaxProviders == 3

\* what a provider's getDataForDate does: throws, finds nothing, or returns
\* items
ProviderResults ==
    { Thrown, Items(<< >>), Items(<< "Phase: Full Moon" >>),
      Items(<< "Moon Age: 14 days" >>) }

Providers == [ targetHeader : NoteHeaders, result : ProviderResults ]

RECURSIVE ProviderLists(_)
ProviderLists(n) ==
    IF n = 0 THEN { << >> }
    ELSE { Append(s, p) : s \in ProviderLists(n - 1), p \in Providers }

\* the active note when the command is run: without a section of a
\* provider, with one and with one followed by another heading
MagicNotes ==
    { << Line("", "slept well", "") >>,
      << Line("", "## Moon Phase", ""), Line("- ", "Phase: Full Moon", "") >>,
      << Line("", "## Moon Phase", ""), Line("- ", "Moon Age: 13 days", ""),
         Line("", "## Daily Context", ""), Line("", "slept well", "") >> }

\* dated: there is an active file and getDateFromFile finds its date
MagicInputs ==
    [ dated : BOOLEAN, providers : ProviderLists(MaxProviders),
      replaceContext : BOOLEAN, note : MagicNotes ]

InitMagic ==
    /\ amIn \in MagicInputs
    /\ amPc = "start"
    /\ amNext = 0
    /\ amContent = << >>
    /\ amMods = FALSE
    /\ amVault = amIn.note
    /\ amWrites = 0
    /\ amLog = << >>

\* activateMagic up to the loop: the early returns and vault.read
ActivateMagic ==
    /\ amPc = "start"
    /\ IF amIn.dated
       THEN amPc' = "loop" /\ amNext' = 1 /\ amContent' = amVault
       ELSE amPc' = "done" /\ UNCHANGED << amNext, amContent >>
    /\ UNCHANGED << amIn, amMods, amVault, amWrites, amLog, phaseVars, constVars, moonVars, riseSetVars, aspectVars, celestialVars, planetVars, sunVars, flagVars, bodyVars, noteVars, dayVars >>

\* one pass of the loop over this.providers
ProviderPass ==
    /\ amPc = "loop"
    /\ amNext <= Len(amIn.providers)
    /\ LET provider == amIn.providers[amNext]
           newContent == TryProvider(amContent, provider, amIn.replaceContext)
       IN  /\ amContent' = newContent
           /\ amMods' = (amMods \/ newContent # amContent)
           /\ amLog' = Append(amLog, [ provider |-> amNext, before |-> amContent,
                                       after |-> newContent ])
           /\ amNext' = AfterCatch(amNext, Len(amIn.providers), provider.result.threw)
    /\ UNCHANGED << amIn, amPc, amVault, amWrites, phaseVars, constVars, moonVars, riseSetVars, aspectVars, celestialVars, planetVars, sunVars, flagVars, bodyVars, noteVars, dayVars >>

\* after the loop: vault.modify if modificationsMade
FinishMagic ==
    /\ amPc = "loop"
    /\ amNext > Len(amIn.providers)
    /\ amPc' = "done"
    /\ IF amMods
       THEN amVault' = amContent /\ amWrites' = amWrites + 1
       ELSE UNCHANGED << amVault, amWrites >>
    /\ UNCHANGED << amIn, amNext, amContent, amMods, amLog, phaseVars, constVars, moonVars, riseSetVars, aspectVars, celestialVars, planetVars, sunVars, flagVars, bodyVars, noteVars, dayVars >>

NextMagic == ActivateMagic \/ ProviderPass \/ FinishMagic

StartMagic ==
    IdlePhase /\ IdleConst /\ IdleMoon /\ IdleRiseSet /\ IdleAspect /\ IdleCelestial /\ IdlePlanet /\ IdleSun /\ IdleFlags /\ IdleBody /\ IdleNote /\ IdleDays /\ InitMagic

SpecMagic == StartMagic /\ [][NextMagic]_vars

(***************************************************************************)
(* Properties of the constellation mapping                                 *)
(***************************************************************************)
Zodiac13 ==
    { "Pisces", "Aries", "Taurus", "Gemini", "Cancer", "Leo", "Virgo",
      "Libra", "Scorpius", "Ophiuchus", "Sagittarius", "Capricornus",
      "Aquarius" }

IntruderNames == { "Cetus", "Orion", "Auriga", "Sextans" }

\* the declared zodiac boundaries (29.0, 53.5, ... 351.5 deg) with the
\* constellation whose bin starts at each
ZodiacBins ==
    << [ from |-> 58,  name |-> "Aries" ],
       [ from |-> 107, name |-> "Taurus" ],
       [ from |-> 180, name |-> "Gemini" ],
       [ from |-> 236, name |-> "Cancer" ],
       [ from |-> 276, name |-> "Leo" ],
       [ from |-> 348, name |-> "Virgo" ],
       [ from |-> 436, name |-> "Libra" ],
       [ from |-> 482, name |-> "Scorpius" ],
       [ from |-> 496, name |-> "Ophiuchus" ],
       [ from |-> 532, name |-> "Sagittarius" ],
       [ from |-> 599, name |-> "Capricornus" ],
       [ from |-> 655, name |-> "Aquarius" ],
       [ from |-> 703, name |-> "Pisces" ] >>

NumBins == Len(ZodiacBins)

\* the bin after k, cyclically, and the bin before it
NextBin(k) == IF k = NumBins THEN 1 ELSE k + 1
PrevBin(k) == IF k = 1 THEN NumBins ELSE k - 1

\* longitude l of [0,360) lies in bin k: [from_k, from_next), the last bin
\* running through 360 = 0 up to the first boundary
InBin(l, k) ==
    IF k = NumBins
    THEN l >= ZodiacBins[k].from \/ l < ZodiacBins[1].from
    ELSE l >= ZodiacBins[k].from /\ l < ZodiacBins[k + 1].from

\* C7: the constellation mapping is total: every longitude (any sign, any
\* number of turns) and latitude yields one known constellation, never
\* "Unknown"; at latitude 0 the longitude reduced to [0,360) lies in exactly
\* one zodiac bin and the result is that bin's constellation.
ConstellationTotal ==
    cPc = "done" =>
        /\ cOut \in Zodiac13 \cup IntruderNames
        /\ cIn.lat = 0 =>
              /\ cOut \in Zodiac13
              /\ Cardinality({ k \in 1..NumBins :
                                 InBin(cIn.lon % FullCircle, k) }) = 1
              /\ \A k \in 1..NumBins :
                    InBin(cIn.lon % FullCircle, k) => cOut = ZodiacBins[k].name

\* a negative longitude at latitude 0 has been classified
ConstellationTotalWitness ==
    cPc = "done" /\ cIn.lat = 0 /\ cIn.lon < 0 /\ cOut = "Ophiuchus"

\* C8: at latitude 0 a longitude exactly on a declared boundary resolves to
\* the constellation whose bin starts there, and the half-degree just below
\* it resolves to the preceding constellation.
BoundaryGreaterOrEqualSide ==
    (cPc = "done" /\ cIn.lat = 0) =>
        \A k \in 1..NumBins :
            /\ cIn.lon % FullCircle = ZodiacBins[k].from
                  => cOut = ZodiacBins[k].name
            /\ cIn.lon % FullCircle = ZodiacBins[k].from - 1
                  => cOut = ZodiacBins[PrevBin(k)].name

\* the boundary 53.5 deg itself has been classified, at latitude 0
BoundaryWitness ==
    cPc = "done" /\ cIn.lat = 0 /\ cIn.lon = 107 /\ cOut = "Taurus"

(***************************************************************************)
(* Properties of the phase computation                                     *)
(***************************************************************************)
\* C9: for any moon and sun longitudes the elongation used lies in [0,360),
\* the illumination fraction in [0,1] and the reported percentage in 0..100.
PhaseRanges ==
    phPc = "done" =>
        /\ phOut.elongation >= 0 /\ phOut.elongation < FullCircle
        /\ phOut.phasePct >= 0 /\ phOut.phasePct <= CosScale
        /\ phOut.illumination \in 0..100

\* a moon behind the sun (negative difference) has been given a phase
PhaseRangesWitness ==
    /\ phPc = "done"
    /\ phIn.moonLon - phIn.sunLon < 0 - FullCircle
    /\ phOut.elongation = 700
    /\ phOut.illumination = 1

\* the 45-degree bucket an elongation of [0,360) is nearest to, halves
\* going up, the last half-bucket wrapping to 0
NearestBucket(e) ==
    IF e < 45 \/ e >= 675 THEN 0
    ELSE CHOOSE k \in 1..7 : e >= 90 * k - 45 /\ e < 90 * k + 45

\* C10: the phase name is the one of the nearest 45-degree bucket of the
\* elongation, taken mod 8: the index is in 0..7 and elongations from 337.5
\* up to 360 are New Moon.
PhaseBucket ==
    phPc = "done" =>
        /\ phOut.segment \in 0..7
        /\ phOut.segment =
              NearestBucket((phIn.moonLon - phIn.sunLon) % FullCircle)
        /\ phOut.name = phases[phOut.segment + 1]
        /\ (phIn.moonLon - phIn.sunLon) % FullCircle >= 675
              => phOut.name = "New Moon"

\* an elongation of exactly 337.5 deg has been named
PhaseBucketWitness ==
    /\ phPc = "done"
    /\ (phIn.moonLon - phIn.sunLon) % FullCircle = 675
    /\ phOut.name = "New Moon"

(***************************************************************************)
(* Properties of the moon age                                              *)
(***************************************************************************)
\* the number of the Moon Age line of a finished query
ReportedAge == mItems[3].num

AgeReported == mPc = "done" /\ mIn.enableMoon

\* the new moon the age is counted from
AgeNewMoon ==
    findPreviousNewMoon(setHours(NoteDate(mIn.day, mIn.tz), 12, mIn.tz),
                        mIn.epoch)

\* C5: for any target date, new-moon instant and UTC offset the reported
\* Moon Age is an integer with 0 <= age < 30.
MoonAgeInRange ==
    AgeReported => (ReportedAge >= 0 /\ ReportedAge < 30)

\* C6: the reported Moon Age is the number of local calendar days from the
\* local date of the most recent new moon to the queried local date (so 0 on
\* the date of the new moon and one more on each following date).
MoonAgeIsCalendarDays ==
    AgeReported =>
        ReportedAge = mIn.day - LocalDay(AgeNewMoon, mIn.tz)

(***************************************************************************)
(* Properties of the rise/set outcomes                                     *)
(***************************************************************************)
\* the outcome the hour-angle equation defines for a cosine
Outcome(cosH) ==
    IF cosH > 1000 THEN "never rises"
    ELSE IF cosH < 0 - 1000 THEN "never sets"
    ELSE "normal"

\* C4: the three outcomes of the rise/set computation (normal, never rises,
\* never sets) are returned as values a caller can tell apart: two
\* computations with different outcomes never return the same value.
RiseSetOutcomesDistinct ==
    rsPc = "done" =>
        (Outcome(rsIn[1].cosH) # Outcome(rsIn[2].cosH) => rsOut[1] # rsOut[2])

\* what the sources do: a degenerate outcome is told apart from a normal one
DegenerateDistinctFromNormal ==
    rsPc = "done" =>
        \A i \in 1..2 : rsOut[i].isNull <=> Outcome(rsIn[i].cosH) # "normal"

(***************************************************************************)
(* Properties of the aspect detection                                      *)
(***************************************************************************)
AspectLabels ==
    { "Conjunction", "Opposition", "Trine", "Square", "Sextile", "Semi-Sextile",
      "Semi-Square", "Quintile", "Sesquiquadrate", "Bi-Quintile" }

\* the instants at which a list of events reports a crossing with a label
CrossingInstants(events, label) ==
    { events[k].timeMs : k \in { j \in 1..Len(events) : events[j].text.label = label } }

\* C3: aspect detection is symmetric in its two bodies: for every aspect
\* angle, checkAspects on (A, B) emits a crossing of that angle exactly when
\* it does on (B, A), and at the same interpolated instant.  Longitudes lie
\* on the half-degree grid and the arithmetic is exact.
AspectSymmetric ==
    aPc = "done" =>
        \A label \in AspectLabels :
            CrossingInstants(aOut.ab, label) = CrossingInstants(aOut.ba, label)

\* a sextile taken the negative way round is found for both orders of the
\* bodies, in the interior of the day
AspectSymmetricWitness ==
    /\ aPc = "done"
    /\ aIn.start1 - aIn.start2 = 0 - Deg(60) - 3
    /\ \E t \in CrossingInstants(aOut.ab, "Sextile") :
          /\ 0 < t /\ t < MsPerDay
          /\ t \in CrossingInstants(aOut.ba, "Sextile")

(***************************************************************************)
(* Properties of the celestial events list                                 *)
(***************************************************************************)
\* C1: the timed celestial events of a query appear in the returned items
\* in non-decreasing order of their instants, for every date and every
\* setting of the flags.
EventsSortedByInstant ==
    cePc = "done" =>
        /\ Len(ceOut.rawEvents) <= Len(ceOut.items)
        /\ \A k \in 1..Len(ceOut.rawEvents) : ceOut.items[k] = ceOut.rawEvents[k].text
        /\ \A j, k \in 1..Len(ceOut.rawEvents) :
              j < k => ceOut.rawEvents[j].timeMs <= ceOut.rawEvents[k].timeMs

\* a lunar event of the afternoon is returned after a planetary event of
\* the morning, although the lunar scan runs first
EventsSortedWitness ==
    /\ cePc = "done"
    /\ \E j, k \in 1..Len(ceOut.rawEvents) :
          /\ j < k
          /\ ceOut.rawEvents[j].timeMs < ceOut.rawEvents[k].timeMs
          /\ ceOut.rawEvents[j].text.label = "Conjunction"
          /\ ceOut.rawEvents[k].text.label = "at Ascending Node"

\* C2: the returned items never hold two entries with the same text,
\* whichever scan produced them.
NoDuplicateText ==
    cePc = "done" =>
        \A j, k \in 1..Len(ceOut.items) :
            j # k => ceOut.items[j] # ceOut.items[k]

\* the lunar scan met the same text twice (the moon touches the equator
\* between two samples north of it) and the items hold it once, next to
\* other events
NoDuplicateTextWitness ==
    /\ cePc = "done"
    /\ ceIn.st.enableCelestialEvents /\ ceIn.st.showAdvancedAstronomy
    /\ Len(getLunarEvents_noDedup(ceIn.track, ceIn.st, ceIn.tz))
          > Len(getLunarEvents(ceIn.track, ceIn.st, ceIn.tz))
    /\ \E k \in 1..Len(ceOut.items) : ceOut.items[k].label = "on Eq."
    /\ Len(ceOut.items) >= 3

(***************************************************************************)
(* Properties of the Moon-Node pair                                        *)
(***************************************************************************)
\* C11: for the Moon-Node pair the generic aspect check never emits a
\* Conjunction or an Opposition, whatever the longitudes and the flags.
MoonNodeSuppressed ==
    cePc = "done" =>
        \A k \in 1..Len(ceOut.items) :
            ~ ( /\ ceOut.items[k].b1 = "Moon"
                /\ ceOut.items[k].b2 = "Node"
                /\ ceOut.items[k].label \in { "Conjunction", "Opposition" } )

\* the moon passes the node's longitude during the day with the node among
\* the bodies: the test of any other pair reports the conjunction, the
\* items do not, while the moon's conjunction with Mercury is reported
MoonNodeSuppressedWitness ==
    /\ cePc = "done"
    /\ ceIn.st.enableCelestialEvents /\ ceIn.st.showDeepAstrology
    /\ checkCrossing_noNodeRule(0, "Conjunction",
           AspectArgs("Moon", ceIn.sky.moon.start, ceIn.sky.moon.end,
                      "Node", ceIn.sky.pos["node"].start,
                      ceIn.sky.pos["node"].end, TRUE, ceIn.st, ceIn.tz)) # << >>
    /\ \E k \in 1..Len(ceOut.items) :
          /\ ceOut.items[k].label = "Conjunction"
          /\ ceOut.items[k].b1 = "Moon" /\ ceOut.items[k].b2 = "Mercury"

\* C15: whenever calcRiseSet returns both instants, the set instant is not
\* earlier than the rise instant (a set computed before the rise is moved
\* on by 24 hours).
SetNotBeforeRise ==
    \A i \in 1..Len(rsOut) :
        (rsIn[i].fn = "planet" /\ ~rsOut[i].isNull) =>
            rsOut[i].setDate >= rsOut[i].riseDate

\* what the sources do: the set is at most an hour (the zone's change of
\* offset) short of the rise, and not short of it in a zone of fixed offset
SetNotBeforeRiseFixedZone ==
    \A i \in 1..Len(rsOut) :
        (rsIn[i].fn = "planet" /\ ~rsOut[i].isNull) =>
            /\ rsOut[i].setDate + 60 >= rsOut[i].riseDate
            /\ rsIn[i].tz.std = rsIn[i].tz.dst => rsOut[i].setDate >= rsOut[i].riseDate

(***************************************************************************)
(* Properties of the planet visibility                                     *)
(***************************************************************************)
PlanetDone == plPc = "done" /\ plIn.enablePlanets /\ plIn.sun.cosH <= 1000

\* the instants the classification of planet k works on
SunOf == calcRiseSet(RiseSetArgs(plIn, plIn.sun))
TimesOf(k) == calcRiseSet(RiseSetArgs(plIn, plIn.sky[k]))
ElongOf(k) == calculateElongation(plIn.sky[k].lon, plIn.sky[k].lat, plIn.sLon)

\* the lines of the items that are about planet k
LinesOf(k) ==
    { i \in 1..Len(plItems) : plItems[i].name = planets[k].name }

\* the status the rules of the claim assign, taken in their order
RuledStatus(pRise, pSet, sunSet, sunRiseNext) ==
    CASE pSet > sunRiseNext /\ pRise < sunSet + 60 -> "Visible All Night"
      [] pSet > sunRiseNext /\ ~(pRise < sunSet + 60) -> "Visible Most of Night"
      [] ~(pSet > sunRiseNext) /\ sunSet < pSet /\ pSet < sunRiseNext /\ pRise < sunSet
            -> "Visible until"
      [] ~(pSet > sunRiseNext) /\ sunSet < pSet /\ pSet < sunRiseNext /\ ~(pRise < sunSet)
            -> "Visible Tonight"
      [] ~(pSet > sunRiseNext) /\ ~(sunSet < pSet /\ pSet < sunRiseNext)
         /\ sunSet < pRise /\ pRise < sunRiseNext
            -> "Visible in Morning"
      [] OTHER -> "Not visible (Up during day)"

\* C12: a planet with an elongation of 10 degrees or more and defined rise
\* and set instants gets exactly one line, whose status follows the rules in
\* their order: All Night, Most of Night, until <set>, Tonight, in Morning,
\* Up during day.
VisibilityByRules ==
    PlanetDone =>
        \A k \in 1..Len(planets) :
            (~TimesOf(k).isNull /\ ElongOf(k) >= Deg(10)) =>
                /\ Cardinality(LinesOf(k)) = 1
                /\ \A i \in LinesOf(k) :
                      /\ plItems[i].status =
                            RuledStatus(TimesOf(k).riseDate, TimesOf(k).setDate,
                                        SunOf.setDate, SunOf.riseDate + MinutesPerDay)
                      /\ plItems[i].status = "Visible until" =>
                            plItems[i].time = TimesOf(k).set

\* one query reports a planet that rises and sets in the night as visible
\* tonight and another as visible until its set
VisibilityByRulesWitness ==
    /\ PlanetDone
    /\ \E i, j \in 1..Len(plItems) :
          /\ plItems[i].status = "Visible Tonight"
          /\ plItems[j].status = "Visible until"
          /\ plItems[j].time = << 8, 59, "PM" >>

\* the rise is less than 90 minutes from the next sunrise / the set is less
\* than 90 minutes from the sunset
HardRise(k) == Abs(TimesOf(k).riseDate - (SunOf.riseDate + MinutesPerDay)) < 90
HardSet(k) == Abs(TimesOf(k).setDate - SunOf.setDate) < 90

\* the planets that get a visibility status from the buckets
Classified(k) == ~TimesOf(k).isNull /\ ElongOf(k) >= Deg(10)

\* C13 as stated: "(Difficult)" is appended whenever the rise is within 90
\* minutes of the adjacent sunrise or the set within 90 minutes of the
\* adjacent sunset, and not otherwise.
DifficultWheneverNearSun ==
    PlanetDone =>
        \A k \in 1..Len(planets) :
            Classified(k) =>
                \A i \in LinesOf(k) :
                    plItems[i].difficult <=> (HardRise(k) \/ HardSet(k))

\* C13 amended: "(Difficult)" is appended exactly when the status is
\* "Visible in Morning" and the rise is less than 90 minutes from the next
\* sunrise, or the status is "Visible until <set>" and the set is less than
\* 90 minutes from the sunset.
DifficultOnlyForMorningAndUntil ==
    PlanetDone =>
        \A k \in 1..Len(planets) :
            Classified(k) =>
                \A i \in LinesOf(k) :
                    plItems[i].difficult <=>
                        \/ plItems[i].status = "Visible in Morning" /\ HardRise(k)
                        \/ plItems[i].status = "Visible until" /\ HardSet(k)

\* a planet that rose before the sunset and sets less than 90 minutes after
\* it, its rise being far from the next sunrise, is marked
DifficultWitness ==
    /\ PlanetDone
    /\ \E k \in 1..Len(planets) : \E i \in LinesOf(k) :
          /\ Classified(k)
          /\ plItems[i].difficult
          /\ plItems[i].status = "Visible until"
          /\ HardSet(k) /\ ~HardRise(k)

\* planet k is less than 10 degrees from the sun on the sphere: the cosine of
\* the separation, cos(lat) * cos(dLon), exceeds the cosine of 10 degrees
TooCloseToSun(k) ==
    LET dLon == Normalize180(plIn.sky[k].lon - plIn.sLon, FullCircle)
    IN  MulScaled(Cos(Abs(plIn.sky[k].lat)), Cos(Abs(dLon))) > Cos(Deg(10))

\* C14: a planet (with defined rise and set) whose elongation is below 10
\* degrees is reported as "Not visible (Too close to Sun)" whatever its rise
\* and set instants are, and no planet with an elongation of 10 degrees or
\* more receives that label.
TooCloseIffElongationBelowTen ==
    PlanetDone =>
        \A k \in 1..Len(planets) :
            ~TimesOf(k).isNull =>
                /\ TooCloseToSun(k) =>
                      /\ Cardinality(LinesOf(k)) = 1
                      /\ \A i \in LinesOf(k) :
                            /\ plItems[i].status = "Not visible (Too close to Sun)"
                            /\ ~plItems[i].difficult
                /\ ~TooCloseToSun(k) =>
                      \A i \in LinesOf(k) :
                          plItems[i].status # "Not visible (Too close to Sun)"

\* a planet 9 degrees from the sun in longitude and 2 in latitude, whose
\* instants would make it visible all night, is reported as too close
TooCloseWitness ==
    /\ PlanetDone
    /\ \E k \in 1..Len(planets) : \E i \in LinesOf(k) :
          /\ ~TimesOf(k).isNull
          /\ TooCloseToSun(k)
          /\ plItems[i].status = "Not visible (Too close to Sun)"
          /\ plIn.sky[k].lat # 0
          /\ RuledStatus(TimesOf(k).riseDate, TimesOf(k).setDate,
                         SunOf.setDate, SunOf.riseDate + MinutesPerDay)
                = "Visible All Night"

(***************************************************************************)
(* Properties of the sun times                                             *)
(***************************************************************************)
\* the queries that computed times
SunAnswered == { i \in 1..Len(suLog) : Len(suLog[i].out.items) = 2 }

\* C16: sunrise and sunset are converted with the UTC offset in force on the
\* target date, and two queries for the same target date and observer made
\* while different offsets apply to the system clock return identical times.
SunTimesByTargetOffset ==
    /\ \A i \in SunAnswered :
          suLog[i].out.offset = TzOffsetAt(suIn.zone, LocalMidnight(suIn.zone, suIn.day))
    /\ \A i, j \in SunAnswered : suLog[i].out.items = suLog[j].out.items

\* the same note is queried before and after the clocks are put forward,
\* the sun rising and setting on its day
SunTimesWitness ==
    \E i, j \in SunAnswered :
        /\ TzOffsetAt(suIn.zone, suLog[i].now) # TzOffsetAt(suIn.zone, suLog[j].now)
        /\ suLog[j].out.offset # TzOffsetAt(suIn.zone, suLog[j].now)
        /\ suLog[i].out.items[1].time # << "--:--" >>
        /\ suLog[i].out.items = suLog[j].out.items

(***************************************************************************)
(* Properties of the feature flags                                         *)
(***************************************************************************)
\* how often x occurs in the sequence s
Occurrences(s, x) == Cardinality({ i \in 1..Len(s) : s[i] = x })

\* every element of s occurs in t at least as often as in s
Contained(s, t) ==
    \A i \in 1..Len(s) : Occurrences(s, s[i]) <= Occurrences(t, s[i])

\* the settings t are the settings s with more flags turned on
FlagsAdded(s, t) ==
    /\ \A f \in FeatureFlags : s[f] => t[f]
    /\ \E f \in FeatureFlags : ~s[f] /\ t[f]
    /\ s.use24HourFormat = t.use24HourFormat

\* C17: turning on one more of the flags showAdvancedAstronomy, showAstrology,
\* showDeepAstrology, showRetrogrades never removes an event that is emitted
\* with the flag off and never changes its text or its instant.
FlagsOnlyAddEvents ==
    \A i, j \in 1..Len(fgLog) :
        FlagsAdded(fgLog[i].st, fgLog[j].st) =>
            /\ Contained(fgLog[i].out.rawEvents, fgLog[j].out.rawEvents)
            /\ Contained(fgLog[i].out.items, fgLog[j].out.items)

\* a day reported with a conjunction and a lunar node while all flags are
\* off is reported with more events once one flag is on
FlagsOnlyAddEventsWitness ==
    /\ Len(fgLog) = 2
    /\ \A f \in FeatureFlags : ~fgLog[1].st[f]
    /\ FlagsAdded(fgLog[1].st, fgLog[2].st)
    /\ \E i, j \in 1..Len(fgLog[1].out.rawEvents) :
          /\ fgLog[1].out.rawEvents[i].text.label = "Conjunction"
          /\ fgLog[1].out.rawEvents[j].text.label = "at Ascending Node"
    /\ Len(fgLog[2].out.rawEvents) > Len(fgLog[1].out.rawEvents)

(***************************************************************************)
(* Properties of the moon toggles                                          *)
(***************************************************************************)
\* the items of the moon query that carry the label l
MoonLines(l) == { i \in 1..Len(mItems) : mItems[i].kind = l }

\* C18: with enableMoonAge off no "Moon Age" line is produced, with
\* enableMoonPosition off no "Astronomical Position" line, with
\* enableMoonTimes off no Rise or Set line, and the lines of the toggles left
\* on are still produced.
MoonTogglesRespected ==
    (mPc = "done" /\ mIn.enableMoon) =>
        /\ MoonLines("Moon Age") # {} <=> mIn.enableMoonAge
        /\ MoonLines("Astronomical Position") # {} <=> mIn.enableMoonPosition
        /\ ~mIn.enableMoonTimes => MoonLines("Rise") \cup MoonLines("Set") = {}
        /\ (mIn.enableMoonTimes /\ getMoonTimes(mIn.alt, mIn.located).rise >= 0)
              => MoonLines("Rise") # {}
        /\ (mIn.enableMoonTimes /\ getMoonTimes(mIn.alt, mIn.located).set >= 0)
              => MoonLines("Set") # {}

(***************************************************************************)
(* Properties of the position lookups                                      *)
(***************************************************************************)
\* the identifiers the function called knows
KnownIds ==
    IF bdIn.fn = "getBodyLongitude" THEN BodyElems \cup { "node", "sun" }
    ELSE PlanetElems

\* C19: asking for the position of an identifier outside the known body set
\* fails with an error; no longitude is returned.
UnknownBodyFailsFast ==
    (bdPc = "done" /\ bdIn.bodyId \notin KnownIds) => bdOut.threw

\* getPlanetPosition alone: an identifier outside its table throws
UnknownPlanetFailsFast ==
    (bdPc = "done" /\ bdIn.fn = "getPlanetPosition" /\ bdIn.bodyId \notin KnownIds)
        => bdOut.threw

(***************************************************************************)
(* Properties of the section update                                        *)
(***************************************************************************)
\* the position of the header in the note before the last call, and of the
\* next line after it that begins with '#' (one past the end if none)
HeaderAt ==
    FirstIndex({ i \in 1..Len(ntCall.before) :
                   Trim(ntCall.before[i]) = Trim(ntCall.header) })
NextHeadingAt ==
    LET S == { i \in 1..Len(ntCall.before) :
                 i > HeaderAt /\ StartsWithHash(ntCall.before[i]) }
    IN  IF S = {} THEN Len(ntCall.before) + 1 ELSE FirstIndex(S)

\* the last call overwrote a section that was there
Overwrote == ntCalls > 0 /\ ntCall.replace /\ HeaderAt > 0

ScanDone ==
    cePc = "done" /\ ceIn.st.enableCelestialEvents /\ ceIn.st.showAdvancedAstronomy

\* the sign of the first difference of the quantity q over step i
DiffSign(q, i) ==
    Sign(getMoonFullPos(ceIn.track, i)[q] - getMoonFullPos(ceIn.track, i - 1)[q])

\* the most recent non-zero sign of the first difference before step i, 0
\* if the quantity has not moved since the start of the scan
LastTrend(q, i) ==
    LET moved == { j \in 1..(i - 1) : DiffSign(q, j) # 0 }
    IN  IF moved = {} THEN 0
        ELSE DiffSign(q, CHOOSE j \in moved : \A k \in moved : k <= j)

\* the steps at which the quantity q turns: it moves, and against the way it
\* last moved
Reversals(q) ==
    { i \in 1..steps :
        DiffSign(q, i) # 0 /\ LastTrend(q, i) # 0 /\ DiffSign(q, i) # LastTrend(q, i) }

\* the steps at which the query reports an event with one of the labels
ReportedAt(labels) ==
    { i \in 1..steps :
        \E k \in 1..Len(ceOut.rawEvents) :
            /\ ceOut.rawEvents[k].text.label \in labels
            /\ ceOut.rawEvents[k].timeMs = i * MsPerHour }

\* C21: a distance or declination extreme (the latter beyond 18 degrees) is
\* reported exactly when the sign of the current first difference differs
\* from the most recent non-zero one, perigee after shrinking and apogee
\* after growing; an interval without change neither produces an event nor
\* erases the remembered trend.
ExtremeAtTrendReversal ==
    ScanDone =>
        /\ ReportedAt({ "at Perig." }) =
              { i \in Reversals("dist") : LastTrend("dist", i) < 0 }
        /\ ReportedAt({ "at Apo." }) =
              { i \in Reversals("dist") : LastTrend("dist", i) > 0 }
        /\ ReportedAt({ "runs High", "runs Low" }) =
              { i \in Reversals("dec") : Abs(getMoonFullPos(ceIn.track, i).dec) > 18 }

\* the hourly latitude samples of the queried scan
LatAt(i) == getMoonFullPos(ceIn.track, i).lat

\* a crossing of the ecliptic in the samples: a sample south and a sample
\* north of it with nothing but samples exactly on it in between
NodeCrossings ==
    { c \in (0..steps) \X (0..steps) :
        /\ c[1] < c[2]
        /\ LatAt(c[1]) # 0 /\ LatAt(c[2]) # 0
        /\ Sign(LatAt(c[1])) # Sign(LatAt(c[2]))
        /\ \A k \in (c[1] + 1)..(c[2] - 1) : LatAt(k) = 0 }

NodeLabels == { "at Ascending Node", "at Descending Node" }

NodeEvents == { k \in 1..Len(ceOut.rawEvents) : ceOut.rawEvents[k].text.label \in NodeLabels }

NodeEventsOf(c) ==
    { k \in NodeEvents : /\ ceOut.rawEvents[k].timeMs >= c[1] * MsPerHour
                         /\ ceOut.rawEvents[k].timeMs <= c[2] * MsPerHour }

\* C22: every crossing of zero by the moon's ecliptic latitude in the hourly
\* samples yields exactly one node event, Ascending from south to north and
\* Descending from north to south, also when a sample is exactly zero; and
\* there is no node event without a crossing
OneNodeEventPerCrossing ==
    (cePc = "done" /\ ceIn.st.enableCelestialEvents) =>
        /\ \A c \in NodeCrossings :
              /\ Cardinality(NodeEventsOf(c)) = 1
              /\ \A k \in NodeEventsOf(c) :
                    ceOut.rawEvents[k].text.label =
                        (IF LatAt(c[1]) < 0 THEN "at Ascending Node" ELSE "at Descending Node")
        /\ \A k \in NodeEvents : \E c \in NodeCrossings : k \in NodeEventsOf(c)

(***************************************************************************)
(* Properties of the station test                                          *)
(***************************************************************************)
\* a change of longitude reduced as the station test reduces it
Reduced(v) ==
    LET u == IF v < 0 - HalfCircle THEN v + FullCircle ELSE v
    IN  IF u > HalfCircle THEN u - FullCircle ELSE u

\* the bodies the station test is applied to
StationBodies ==
    { k \in 1..NumBodies(ceIn.st) : bodies[k].id # "node" /\ bodies[k].id # "sun" }

StationReported(k) ==
    \E e \in 1..Len(ceOut.rawEvents) :
        /\ ceOut.rawEvents[e].text.label = "stat."
        /\ ceOut.rawEvents[e].text.b1 = bodies[k].name

\* the change of longitude over the day before the start of the queried day
\* and over the day after it; the sample at the end of the queried day stands
\* for the start of the next day, one millisecond later
ChangeBefore(k) == Reduced(ceIn.sky.pos[bodies[k].id].start - ceIn.sky.pos[bodies[k].id].prev)

ChangeAfter(k) == Reduced(ceIn.sky.pos[bodies[k].id].end - ceIn.sky.pos[bodies[k].id].start)

\* C23: the station test uses the three longitudes one day apart (start of
\* the previous day, of the queried day, of the next day): a station is
\* reported when the changes over the day before and over the day after have
\* opposite signs, and only when their signs differ
StationFromDailyChanges ==
    (cePc = "done" /\ ceIn.st.enableCelestialEvents /\ ceIn.st.showRetrogrades) =>
        \A k \in StationBodies :
            /\ (ChangeBefore(k) > 0 /\ ChangeAfter(k) < 0) => StationReported(k)
            /\ (ChangeBefore(k) < 0 /\ ChangeAfter(k) > 0) => StationReported(k)
            /\ StationReported(k) => Sign(ChangeBefore(k)) # Sign(ChangeAfter(k))

(***************************************************************************)
(* Properties of the aspect angles                                         *)
(***************************************************************************)
\* the aspects by category, as the settings tab names them
AspectCategories ==
    << [ angle |-> 0,   label |-> "Conjunction",    category |-> "basic" ],
       [ angle |-> 180, label |-> "Opposition",     category |-> "basic" ],
       [ angle |-> 120, label |-> "Trine",          category |-> "astrology" ],
       [ angle |-> 90,  label |-> "Square",         category |-> "astrology" ],
       [ angle |-> 60,  label |-> "Sextile",        category |-> "astrology" ],
       [ angle |-> 30,  label |-> "Semi-Sextile",   category |-> "deep" ],
       [ angle |-> 45,  label |-> "Semi-Square",    category |-> "deep" ],
       [ angle |-> 72,  label |-> "Quintile",       category |-> "deep" ],
       [ angle |-> 135, label |-> "Sesquiquadrate", category |-> "deep" ],
       [ angle |-> 144, label |-> "Bi-Quintile",    category |-> "deep" ] >>

Labelled(events, label) == SelectSeq(events, LAMBDA e : e.text.label = label)

\* the events of the call A-B when the angle of row r is tested: at +angle
\* and, other than for 0 and 180, at -angle
TestedBothWays(r) ==
    LET a == AspectArgs("A", aIn.start1, aIn.end1, "B", aIn.start2, aIn.end2,
                        aIn.isMoonNode, aIn.st, 0)
    IN  CrossingAt(Deg(r.angle), r.label, a)
        \o (IF r.angle # 0 /\ r.angle # 180
            THEN CrossingAt(0 - Deg(r.angle), r.label, a)
            ELSE << >>)

AnglesTestedWhen(enabled(_)) ==
    aPc = "done" =>
        \A k \in 1..Len(AspectCategories) :
            Labelled(aOut.ab, AspectCategories[k].label) =
                (IF enabled(AspectCategories[k])
                 THEN TestedBothWays(AspectCategories[k]) ELSE << >>)

\* each category enabled by its own flag alone
EnabledByOwnFlag(r) ==
    CASE r.category = "basic" -> TRUE
      [] r.category = "astrology" -> aIn.st.showAstrology
      [] r.category = "deep" -> aIn.st.showDeepAstrology

\* the astrology category also enabled by the deep flag, and the basic
\* category not tested between the moon and its node
EnabledInCode(r) ==
    CASE r.category = "basic" -> ~aIn.isMoonNode
      [] r.category = "astrology" -> aIn.st.showAstrology \/ aIn.st.showDeepAstrology
      [] r.category = "deep" -> aIn.st.showDeepAstrology

DegenerateRiseSetOmitted ==
    (plPc = "done" /\ plIn.enablePlanets) =>
        /\ SunOf.isNull => plItems = << >>
        /\ ~SunOf.isNull =>
              \A k \in 1..Len(planets) :
                  /\ TimesOf(k).isNull => LinesOf(k) = {}
                  /\ ~TimesOf(k).isNull => Cardinality(LinesOf(k)) = 1

\* a planet that never rises is left out while a later planet is classified
DegenerateRiseSetWitness ==
    /\ plPc = "done" /\ plIn.enablePlanets /\ ~SunOf.isNull
    /\ TimesOf(2).isNull /\ LinesOf(2) = {}
    /\ ~TimesOf(3).isNull /\ LinesOf(3) # {}
    /\ Len(plItems) = Len(planets) - 1

\* the sun never rises and the list is empty although every planet rises
SunlessDayWitness ==
    /\ plPc = "done" /\ plIn.enablePlanets /\ SunOf.isNull
    /\ \A k \in 1..Len(planets) : ~TimesOf(k).isNull
    /\ plItems = << >>

(***************************************************************************)
(* Properties of the lunar scan over consecutive days                      *)
(***************************************************************************)
\* the sign of the change of quantity q over the hour that ends at hour i of
\* the run
RunDiff(q, i) == Sign(SignalAt(dyIn[q], i) - SignalAt(dyIn[q], i - 1))

\* the hours of the run at which the change of q has turned: the change
\* over the hour before and the change over this hour have opposite signs
RunReversals(q) ==
    { i \in 2..(HoursPerDay * MaxScanDays) :
        RunDiff(q, i) # 0 /\ RunDiff(q, i - 1) # 0 /\ RunDiff(q, i) # RunDiff(q, i - 1) }

ExtremeLabels ==
    [ dist |-> { "at Perig.", "at Apo." }, dec |-> { "runs High", "runs Low" } ]

\* the days whose scan reports an extreme of q at hour i of the run
DaysReporting(q, i) ==
    { d \in 1..Len(dyLog) :
        \E k \in 1..Len(dyLog[d]) :
            /\ dyLog[d][k].text.label \in ExtremeLabels[q]
            /\ dyLog[d][k].timeMs = (i - HoursPerDay * (d - 1)) * MsPerHour }

\* C26: with the scan run for consecutive days, every reversal of the
\* distance or declination trend in the continuous hourly samples is reported
\* by the scan of exactly one day, the reversal that turns at the midnight
\* sample shared by two days included
ReversalReportedOnOneDay ==
    dyDay = MaxScanDays =>
        \A q \in { "dist", "dec" } :
            \A i \in RunReversals(q) : Cardinality(DaysReporting(q, i)) = 1

(***************************************************************************)
(* Properties of the planet provider across the wrap of the UTC day        *)
(***************************************************************************)
\* planet k is above the horizon at some time of the coming night, between
\* the day's sunset and the next sunrise: its arc from rise to set, as
\* computed or a day earlier or later, overlaps the night
UpDuringNight(k) ==
    \E n \in { 0 - 1, 0, 1 } :
        /\ TimesOf(k).riseDate + n * MinutesPerDay < SunOf.riseDate + MinutesPerDay
        /\ TimesOf(k).setDate + n * MinutesPerDay > SunOf.setDate

\* C27: a planet with an elongation of 10 degrees or more that is above the
\* horizon at some time of the coming night is never labelled
\* "Not visible (Up during day)", whichever UTC day its rise and set were
\* wrapped into
NightPlanetNeverUpDuringDay ==
    PlanetDone =>
        \A k \in 1..Len(planets) :
            (Classified(k) /\ UpDuringNight(k)) =>
                \A i \in LinesOf(k) : plItems[i].status # "Not visible (Up during day)"

(***************************************************************************)
(* Properties of a run of activateMagic                                    *)
(***************************************************************************)
MagicDone == amPc = "done" /\ amIn.dated

\* provider k returned items, which its pass wrote under its header
Wrote(k) == ~amIn.providers[k].result.threw /\ amIn.providers[k].result.items # << >>

\* the item is a bullet of the note
InNote(lines, item) == \E i \in 1..Len(lines) : lines[i] = Bullet(item)

ItemsKept(k) ==
    \A j \in 1..Len(amIn.providers[k].result.items) :
        InNote(amContent, amIn.providers[k].result.items[j])

\* C28: with 'Overwrite sections' on, the items written by a provider are
\* still in the final note once the later providers have run, also when a
\* later provider targets the same header
EarlierItemsKept ==
    (MagicDone /\ amIn.replaceContext) =>
        \A k \in 1..Len(amIn.providers) : Wrote(k) => ItemsKept(k)

\* no later provider that returned items targets the header of provider k
HeaderOfItsOwn(k) ==
    \A l \in (k + 1)..Len(amIn.providers) :
        Wrote(l) => Trim(amIn.providers[l].targetHeader) # Trim(amIn.providers[k].targetHeader)

\* the same for the providers whose header no later provider writes to
ItemsKeptUnderOwnHeader ==
    (MagicDone /\ amIn.replaceContext) =>
        \A k \in 1..Len(amIn.providers) : (Wrote(k) /\ HeaderOfItsOwn(k)) => ItemsKept(k)

Changed(k) == amLog[k].after # amLog[k].before

\* C29: a provider whose getDataForDate throws is skipped and the run goes
\* on: its pass leaves the content of the earlier providers as it was, the
\* providers run one after the other in their order, all of them by the end
\* of the run, and the note is written to the vault at most once, at the end,
\* exactly when a pass changed the content
ThrowingProviderSkipped ==
    /\ amWrites <= 1
    /\ amPc # "done" => (amWrites = 0 /\ (amPc # "off" => amVault = amIn.note))
    /\ \A k \in 1..Len(amLog) :
          /\ amLog[k].provider = k
          /\ amLog[k].before = (IF k = 1 THEN amIn.note ELSE amLog[k - 1].after)
          /\ amIn.providers[k].result.threw => amLog[k].after = amLog[k].before
    /\ MagicDone =>
          /\ Len(amLog) = Len(amIn.providers)
          /\ amContent = amLog[Len(amLog)].after
          /\ amWrites = 1 <=> \E k \in 1..Len(amLog) : Changed(k)
          /\ amVault = (IF amWrites = 1 THEN amContent ELSE amIn.note)

\* the second provider throws between two providers that change the note,
\* and the note is written once with the items of both
ThrowingProviderWitness ==
    /\ MagicDone
    /\ amIn.providers[2].result.threw
    /\ Changed(1) /\ Changed(3)
    /\ amWrites = 1 /\ amVault = amContent
    /\ ItemsKept(1) /\ ItemsKept(3)

(***************************************************************************)
(* Properties of the instants of a day's events                            *)
(***************************************************************************)
\* a / b is a fraction within [0,1] with a denominator other than 0
UnitFraction(a, b) ==
    /\ b # 0
    /\ (b > 0 => (0 <= a /\ a <= b))
    /\ (b < 0 => (b <= a /\ a <= 0))

\* the hours of the scan at which quantity q is interpolated
InterpolatedHours(q) ==
    { i \in 1..steps :
        Sign(getMoonFullPos(ceIn.track, i - 1)[q]) # Sign(getMoonFullPos(ceIn.track, i)[q]) }

\* the differences of longitude, at the start and at the end of the day, of
\* the pairs of bodies handed to checkAspects
Separations ==
    { [ s |-> ceIn.sky.moon.start - ceIn.sky.pos[bodies[k].id].start,
        e |-> ceIn.sky.moon.end - ceIn.sky.pos[bodies[k].id].end ] : k \in 1..Len(bodies) }
    \cup
    { [ s |-> ceIn.sky.pos[bodies[c[1]].id].start - ceIn.sky.pos[bodies[c[2]].id].start,
        e |-> ceIn.sky.pos[bodies[c[1]].id].end - ceIn.sky.pos[bodies[c[2]].id].end ] :
        c \in { c \in (1..Len(bodies)) \X (1..Len(bodies)) : c[1] < c[2] } }

SignedAngles == { s * Deg(ang) : s \in { 0 - 1, 1 }, ang \in AspectAngles }

\* d1 and d2 of the crossing tests of the day's pairs; a pair whose
\* separation is the same at both ends of the day has d1 = d2 and passes no
\* test
CrossingTests ==
    { << Normalize180(p.s - angle, FullCircle), Normalize180(p.e - angle, FullCircle) >> :
        p \in { p \in Separations : p.s # p.e }, angle \in SignedAngles }

\* C30: every event of a day carries an instant from the start of the UTC
\* day to 24 hours after it; the interpolated fraction of a node or equator
\* crossing lies in [0,1] of its hour and that of an aspect crossing in [0,1]
\* of the day, and no interpolation divides by zero
EventsInsideDay ==
    (cePc = "done" /\ ceIn.st.enableCelestialEvents) =>
        /\ \A k \in 1..Len(ceOut.rawEvents) :
              0 <= ceOut.rawEvents[k].timeMs /\ ceOut.rawEvents[k].timeMs <= MsPerDay
        /\ \A q \in { "lat", "dec" } :
              \A i \in InterpolatedHours(q) :
                  LET prevVal == getMoonFullPos(ceIn.track, i - 1)[q]
                      currVal == getMoonFullPos(ceIn.track, i)[q]
                  IN  /\ UnitFraction(0 - prevVal, currVal - prevVal)
                      /\ (i - 1) * MsPerHour <= getEventTime(i, prevVal, currVal)
                      /\ getEventTime(i, prevVal, currVal) <= i * MsPerHour
        /\ \A d \in CrossingTests :
              (Sign(d[1]) # Sign(d[2]) /\ Abs(d[1] - d[2]) < Deg(20)) =>
                  UnitFraction(0 - d[1], d[2] - d[1])

\* a node crossing in the last hour dated at the very end of the day, with
\* an aspect crossing inside the day
EventsInsideDayWitness ==
    /\ cePc = "done"
    /\ \E j, k \in 1..Len(ceOut.rawEvents) :
          /\ ceOut.rawEvents[j].text.label = "Conjunction"
          /\ 0 < ceOut.rawEvents[j].timeMs /\ ceOut.rawEvents[j].timeMs < MsPerDay
          /\ ceOut.rawEvents[k].text.label \in NodeLabels
          /\ ceOut.rawEvents[k].timeMs = MsPerDay

====
